---- MODULE Spec2Model ----
(***************************************************************************)
(* Model of the rev-dal data-access layer: the revision engine             *)
(* (revision.ts handlers on top of Model.save), the storage collaborator   *)
(* as far as the rendered SQL depends on it, and the filterWhere facade.   *)
(***************************************************************************)
EXTENDS Integers, Sequences, FiniteSets, TLC

(***************************************************************************)
(* Values.  Column values are strings so that rows are functions from      *)
(* column names to values, as `_data` is in the source.                    *)
(***************************************************************************)
\* JS null / SQL NULL
Null == "null"
\* JS undefined: the key is absent from `_data`
Undef == "undef"

\* bound: physical rows the table may hold before new operations stop starting
MaxRows == 3
\* bound: revision stamps (randomUUID / new Date()) handed out before new operations stop starting
MaxClock == 3

\* in-memory instance handles held by callers
Instances == {"a", "b"}
\* handles through which new documents are created; the others hold loaded rows
Creators == {"a"}
\* revision actors; Null stands for a missing user argument
Users == {"U1"}
\* ids a caller may assign to a new instance through the `id` setter
DocIds == {"d1"}
\* values of the one content column kept by the model
Titles == {"A"}

\* columns of the revision-enabled table
Columns ==
    {"id", "title", "_rev_user", "_rev_date", "_rev_id", "_old_rev_of",
     "_rev_deleted", "_rev_tags"}
\* a storage key that is not a column and not on any allow-list
EvilKey == "evil"
\* keys an instance's `_data` may hold
DataKeys == Columns \cup {EvilKey}
\* columns declared NOT NULL
NotNullColumns == {"_rev_user", "_rev_date", "_rev_id"}

\* revision.ts getSchema merged with the entity schema: schema (camelCase) names
SchemaFields ==
    {"title", "_revUser", "_revDate", "_revID", "_oldRevOf", "_revDeleted", "_revTags"}
\* values of the registered camelCase -> storage mapping
MappedDbFields ==
    {"_rev_id", "_rev_user", "_rev_date", "_rev_tags", "_rev_deleted", "_old_rev_of"}
\* fixed metadata columns always allowed
MetadataFields ==
    {"id", "_old_rev_of", "_rev_deleted", "_rev_id", "_rev_of", "_rev_date", "_rev_tags"}

\* Model._isValidDbFieldName
IsValidDbFieldName(f) ==
    \/ f \in SchemaFields
    \/ f \in MappedDbFields
    \/ f \in MetadataFields

\* gen_random_uuid(): the n-th identity storage assigns
GenId(n) == "g" \o ToString(n)
\* randomUUID(): the n-th revision id
RevId(n) == "r" \o ToString(n)
\* new Date(): the n-th timestamp
DateAt(n) == "t" \o ToString(n)

\* every physical id the model can hold
AllIds == DocIds \cup {GenId(n) : n \in 1..(MaxRows + 3)}

VARIABLES
    table,      \* the revision-enabled table: a set of rows (functions Columns -> value)
    nextGen,    \* how many identities storage has generated
    clock,      \* how many revision stamps have been produced
    inst,       \* per handle: [data, changed, isNew]
    pc,         \* per handle: "none" (unbound), "idle", or the await the running call is at
    opArgs,     \* per handle: arguments of the running call kept across awaits
    unsafeSql,  \* statements issued with a column name that is not on the allow-list
    cycles,     \* history: per document id, newRevision calls completed by a successful save
    other,      \* history: document ids with a newRevision or deleteAllRevisions call outside such a cycle
    pending     \* history: per handle, the id a started newRevision not yet saved was called on

revVars ==
    <<table, nextGen, clock, inst, pc, opArgs, unsafeSql, cycles, other, pending>>

VARIABLES
    fwTable,    \* rows of the table a filterWhere chain is run against
    fw,         \* the FilterWhereBuilder of the chain and the QueryBuilder it wraps
    fwResult    \* what the step just taken returned, if it was a terminal operation

fwVars == <<fwTable, fw, fwResult>>

VARIABLES
    jUsers,     \* rows of the users table a joined query reads
    jq,         \* the QueryBuilder of a joined query on teams
    jResult     \* what run() resolved with, if the step just taken was run()

joinVars == <<jUsers, jq, jResult>>

VARIABLES
    fwViews     \* the numeric column `views` of the filterWhere table, per row id

\* state of the parts of the program other than the revision lifecycle and filterWhere
VARIABLES
    modelsByTable,     \* ModelRegistry: table name -> constructor, "none" when absent
    modelsByKey,       \* ModelRegistry: registry key -> constructor, "none" when absent
    manifestRegistry   \* the manifest registry: table name -> manifest, "none" when absent

regVars == <<modelsByTable, modelsByKey, manifestRegistry>>

\* table names and registry keys
RegistryNames == {"t1", "t2", "k", "users"}

VARIABLES
    uInst,      \* an instance of the users model held by a caller
    uSql        \* what the save() just made on uInst sent to storage ("skipped": nothing)

userVars == <<uInst, uSql>>

VARIABLES
    junction,   \* the junction table of a through relation: pairs <<source id, target id>>
    sa          \* per caller: the saveAll() call it has running, between its awaits

juncVars == <<junction, sa>>

\* callers of saveAll()
Savers == {"p1", "p2"}

\* a caller with no saveAll() running
NoSaveAll ==
    [pc |-> "idle", src |-> Undef, desired |-> {}, existing |-> {}, removed |-> {}, added |-> {},
     alone |-> TRUE]

VARIABLES
    mr          \* the loadManyRelated / addManyRelated call just made and its outcome

\* no loadManyRelated / addManyRelated call made
NoMany ==
    [op |-> "none", rel |-> Undef, source |-> Undef, ids |-> {}, thrown |-> "none",
     sent |-> FALSE, map |-> {}]

VARIABLES
    pager       \* a caller's loop over the pages of a chronological feed

\* no loop over a feed started
NoPager ==
    [open |-> FALSE, lit |-> Undef, dir |-> "DESC", limit |-> 1, cursor |-> Undef,
     seen |-> {}, repeated |-> FALSE, done |-> FALSE]

VARIABLES
    tx          \* per caller: its DataAccessLayer.transaction call, between its awaits

\* no transaction call made by either caller
NoTx ==
    [c \in {"a", "b"} |->
        [pc |-> "idle", log |-> <<>>, caught |-> "none", thrown |-> "none", released |-> 0]]

auxVars == <<joinVars, fwViews, regVars, userVars, juncVars, mr, pager, tx>>

vars == <<revVars, fwVars, auxVars>>

(***************************************************************************)
(* Storage collaborator: what PostgreSQL does with the statements the core *)
(* renders against the `revisions` table of the fixture schema.            *)
(***************************************************************************)
\* DEFAULT clauses of the table
ColumnDefault(c) ==
    CASE c = "_rev_deleted" -> "false"
      [] c = "_rev_tags" -> "[]"
      [] OTHER -> Null

NoRow == [c \in Columns |-> Null]

\* variant: a table without the PRIMARY KEY constraint on id
ExecInsert_NoPrimaryKey(tbl, vals, gen) ==
    LET cols == {c \in DOMAIN vals : vals[c] # Undef}
        id == IF "id" \in cols THEN vals["id"] ELSE GenId(gen + 1)
        row == [c \in Columns |->
                  IF c = "id" THEN id
                  ELSE IF c \in cols THEN vals[c] ELSE ColumnDefault(c)]
    IN  IF ~(cols \subseteq Columns)
        THEN [code |-> "42703", table |-> tbl, row |-> NoRow, gen |-> gen]
        ELSE IF \E c \in NotNullColumns : row[c] = Null
        THEN [code |-> "23502", table |-> tbl, row |-> NoRow, gen |-> gen]
        ELSE [code |-> "ok", table |-> tbl \cup {row}, row |-> row,
              gen |-> IF "id" \in cols THEN gen ELSE gen + 1]

\* INSERT INTO t (cols) VALUES (...) [RETURNING *]; vals[c] = Undef: column not listed
ExecInsert(tbl, vals, gen) ==
    LET cols == {c \in DOMAIN vals : vals[c] # Undef}
        id == IF "id" \in cols THEN vals["id"] ELSE GenId(gen + 1)
        row == [c \in Columns |->
                  IF c = "id" THEN id
                  ELSE IF c \in cols THEN vals[c] ELSE ColumnDefault(c)]
    IN  IF ~(cols \subseteq Columns)
        THEN [code |-> "42703", table |-> tbl, row |-> NoRow, gen |-> gen]
        ELSE IF \E c \in NotNullColumns : row[c] = Null
        THEN [code |-> "23502", table |-> tbl, row |-> NoRow, gen |-> gen]
        ELSE IF \E r \in tbl : r["id"] = id
        THEN [code |-> "23505", table |-> tbl, row |-> NoRow, gen |-> gen]
        ELSE [code |-> "ok", table |-> tbl \cup {row}, row |-> row,
              gen |-> IF "id" \in cols THEN gen ELSE gen + 1]

\* variant: the UPDATE matches every revision of the document, not only id = $n
ExecUpdateById_AnyRevision(tbl, id, cols, vals) ==
    LET hit == {r \in tbl : r["id"] = id \/ r["_old_rev_of"] = id}
        upd(r) == [c \in Columns |-> IF c \in cols THEN vals[c] ELSE r[c]]
    IN  IF ~(cols \subseteq Columns)
        THEN [code |-> "42703", table |-> tbl, rows |-> {}]
        ELSE [code |-> "ok", table |-> (tbl \ hit) \cup {upd(r) : r \in hit},
              rows |-> {upd(r) : r \in hit}]

\* UPDATE t SET c = vals[c] (c in cols) WHERE id = $n RETURNING *
ExecUpdateById(tbl, id, cols, vals) ==
    LET hit == {r \in tbl : r["id"] = id}
        upd(r) == [c \in Columns |-> IF c \in cols THEN vals[c] ELSE r[c]]
    IN  IF ~(cols \subseteq Columns)
        THEN [code |-> "42703", table |-> tbl, rows |-> {}]
        ELSE IF \E r \in hit : \E c \in NotNullColumns : upd(r)[c] = Null
        THEN [code |-> "23502", table |-> tbl, rows |-> {}]
        ELSE [code |-> "ok", table |-> (tbl \ hit) \cup {upd(r) : r \in hit},
              rows |-> {upd(r) : r \in hit}]

\* variant: the bulk UPDATE matches on id instead of _old_rev_of
ExecMarkDeleted_ById(tbl, id) ==
    {IF id \notin {Null, Undef} /\ r["id"] = id
     THEN [r EXCEPT !["_rev_deleted"] = "true"] ELSE r : r \in tbl}

\* UPDATE t SET _rev_deleted = true WHERE _old_rev_of = $1
ExecMarkDeleted(tbl, id) ==
    {IF id \notin {Null, Undef} /\ r["_old_rev_of"] = id
     THEN [r EXCEPT !["_rev_deleted"] = "true"] ELSE r : r \in tbl}

(***************************************************************************)
(* Errors                                                                  *)
(***************************************************************************)
\* errors.ts convertPostgreSQLError: keyed on the error's `code`
ConvertPostgreSQLError(code) ==
    CASE code \in {"23505", "23503"} -> "ConstraintError"
      [] code \in {"23502", "23514"} -> "ValidationError"
      [] code \in {"08000", "08003", "08006"} -> "ConnectionError"
      [] OTHER -> "QueryError"

(***************************************************************************)
(* Model runtime: one in-memory instance                                   *)
(***************************************************************************)
\* defaults of the revision schema applied by the constructor
SchemaDefault(k) ==
    CASE k = "_rev_deleted" -> "false"
      [] k = "_rev_tags" -> "[]"
      [] OTHER -> Undef

\* Model.setValue on a persisted (non-virtual) field
SetValue(self, key, value) ==
    [self EXCEPT !.data[key] = value, !.changed = @ \cup {key}]

\* new ModelClass({}): empty `_data`, then _applyDefaults through setValue
NewInstance ==
    [data |-> [k \in DataKeys |-> SchemaDefault(k)],
     changed |-> {k \in DataKeys : SchemaDefault(k) # Undef},
     isNew |-> TRUE]

\* Model._createInstance: hydrate a row returned by a read
CreateInstance(row) ==
    [data |-> [k \in DataKeys |-> IF k \in Columns THEN row[k] ELSE Undef],
     changed |-> {},
     isNew |-> FALSE]

\* the `id` getter: a string, else undefined
InstId(self) ==
    IF self.data["id"] \in {Null, Undef} THEN Undef ELSE self.data["id"]

\* statements recorded when they embed a name that is not on the allow-list
Unsafe(op, fields) ==
    {[op |-> op, col |-> f] : f \in {x \in fields : ~IsValidDbFieldName(x)}}

\* Model._validate for the required revision fields (required(true) in getSchema)
Validate(self) ==
    \A k \in {"_rev_user", "_rev_date", "_rev_id"} : self.data[k] \notin {Null, Undef}

\* Model._insert; up = FALSE: storage cannot be reached
Insert(self, tbl, gen, up) ==
    LET fields == {k \in DataKeys : self.data[k] # Undef}
        q == ExecInsert(tbl, self.data, gen)
        none == [thrown |-> "none", self |-> self, table |-> tbl, gen |-> gen,
                 unsafe |-> {}]
    IN  IF \E f \in fields : ~IsValidDbFieldName(f)
        THEN [none EXCEPT !.thrown = "Error"]
        ELSE IF ~up
        THEN [none EXCEPT !.thrown = "08006", !.unsafe = Unsafe("insert", fields)]
        ELSE IF q.code # "ok"
        THEN [none EXCEPT !.thrown = q.code, !.unsafe = Unsafe("insert", fields)]
        ELSE [thrown |-> "none",
              self |-> [self EXCEPT !.data =
                          [k \in DataKeys |-> IF k \in Columns THEN q.row[k] ELSE @[k]]],
              table |-> q.table,
              gen |-> q.gen,
              unsafe |-> Unsafe("insert", fields)]

\* variant: an UPDATE that writes every stored key of `_data`, dirty or not
Update_WritesAllData(self, tbl, gen, up) ==
    LET changedFields == {k \in DataKeys : self.data[k] # Undef /\ k # "id"}
        q == ExecUpdateById(tbl, InstId(self), changedFields, self.data)
        row == CHOOSE r \in q.rows : TRUE
        none == [thrown |-> "none", self |-> self, table |-> tbl, gen |-> gen,
                 unsafe |-> {}]
    IN  IF self.changed = {}
        THEN none
        ELSE IF \E f \in changedFields : ~IsValidDbFieldName(f)
        THEN [none EXCEPT !.thrown = "Error"]
        ELSE IF ~up
        THEN [none EXCEPT !.thrown = "08006"]
        ELSE IF q.code # "ok"
        THEN [none EXCEPT !.thrown = q.code]
        ELSE IF q.rows = {}
        THEN [none EXCEPT !.thrown = "DOCUMENT_NOT_FOUND"]
        ELSE [thrown |-> "none",
              self |-> [self EXCEPT !.data =
                          [k \in DataKeys |-> IF k \in Columns THEN row[k] ELSE @[k]]],
              table |-> q.table,
              gen |-> gen,
              unsafe |-> {}]

\* Model._update; up = FALSE: storage cannot be reached
Update(self, tbl, gen, up) ==
    LET changedFields == self.changed
        q == ExecUpdateById(tbl, InstId(self), changedFields, self.data)
        row == CHOOSE r \in q.rows : TRUE
        none == [thrown |-> "none", self |-> self, table |-> tbl, gen |-> gen,
                 unsafe |-> {}]
    IN  IF changedFields = {}
        THEN none
        ELSE IF \E f \in changedFields : ~IsValidDbFieldName(f)
        THEN [none EXCEPT !.thrown = "Error"]
        ELSE IF ~up
        THEN [none EXCEPT !.thrown = "08006", !.unsafe = Unsafe("update", changedFields)]
        ELSE IF q.code # "ok"
        THEN [none EXCEPT !.thrown = q.code, !.unsafe = Unsafe("update", changedFields)]
        ELSE IF q.rows = {}
        THEN [none EXCEPT !.thrown = "DOCUMENT_NOT_FOUND",
                          !.unsafe = Unsafe("update", changedFields)]
        ELSE [thrown |-> "none",
              self |-> [self EXCEPT !.data =
                          [k \in DataKeys |-> IF k \in Columns THEN row[k] ELSE @[k]]],
              table |-> q.table,
              gen |-> gen,
              unsafe |-> Unsafe("update", changedFields)]

\* Model.save: validate, insert or update, then clear the dirty set; every
\* error goes through convertPostgreSQLError
Save(self, tbl, gen, up) ==
    LET r == IF self.isNew THEN Insert(self, tbl, gen, up) ELSE Update(self, tbl, gen, up)
    IN  IF ~Validate(self)
        THEN [res |-> ConvertPostgreSQLError("VALIDATION_ERROR"), self |-> self,
              table |-> tbl, gen |-> gen, unsafe |-> {}]
        ELSE IF r.thrown # "none"
        THEN [res |-> ConvertPostgreSQLError(r.thrown), self |-> self,
              table |-> tbl, gen |-> gen, unsafe |-> r.unsafe]
        ELSE [res |-> "ok",
              self |-> [r.self EXCEPT !.isNew = FALSE, !.changed = {}],
              table |-> r.table, gen |-> r.gen, unsafe |-> r.unsafe]

(***************************************************************************)
(* Revision engine                                                         *)
(***************************************************************************)
\* revision.ts resolveRevisionUserId
ResolveRevisionUserId(user) == IF user = Null THEN Null ELSE user

\* revision.ts applyRevisionMetadata, once the user id resolved; n: the stamp drawn
ApplyRevisionMetadata(self, user, tags, n) ==
    SetValue(
      SetValue(
        SetValue(
          SetValue(self, "_rev_id", RevId(n)),
          "_rev_user", ResolveRevisionUserId(user)),
        "_rev_date", DateAt(n)),
      "_rev_tags", tags)

\* variant: the copy keeps `_data` as it is, without the marker
OldRevData_NoMarker(self) ==
    [k \in DataKeys |-> IF k = "id" THEN Undef ELSE self.data[k]]

\* newRevision: the archived copy built from `_data`
OldRevData(self) ==
    [k \in DataKeys |->
       IF k = "_old_rev_of" THEN InstId(self)
       ELSE IF k = "id" THEN Undef
       ELSE self.data[k]]

\* variant: the marker is tested before the deleted flag
GetNotStaleOrDeleted_StaleFirst(tbl, id) ==
    LET found == {r \in tbl : r["id"] = id}
        data == CHOOSE r \in found : TRUE
    IN  IF id \notin AllIds THEN "InvalidUUIDError"
        ELSE IF found = {} THEN "DocumentNotFound"
        ELSE IF data["_old_rev_of"] # Null THEN "RevisionStaleError"
        ELSE IF data["_rev_deleted"] = "true" THEN "RevisionDeletedError"
        ELSE "ok"

\* getNotStaleOrDeleted: the row with this id, read with includeDeleted and
\* includeStale, then classified
GetNotStaleOrDeleted(tbl, id) ==
    LET found == {r \in tbl : r["id"] = id}
        data == CHOOSE r \in found : TRUE
    IN  IF id \notin AllIds THEN "InvalidUUIDError"
        ELSE IF found = {} THEN "DocumentNotFound"
        ELSE IF data["_rev_deleted"] = "true" THEN "RevisionDeletedError"
        ELSE IF data["_old_rev_of"] # Null THEN "RevisionStaleError"
        ELSE "ok"

\* variant: the call goes on without the INSERT having been carried out
Archive_NotAwaited(self, tbl, gen, up) ==
    LET vals == OldRevData(self)
        fields == {k \in DataKeys : vals[k] # Undef}
    IN  [thrown |-> IF up THEN "none" ELSE "08006", table |-> tbl, gen |-> gen,
         unsafe |-> Unsafe("archive", fields)]

\* newRevision up to its awaited INSERT of the archived copy: no allow-list
\* check, and a storage error is thrown as it is
Archive(self, tbl, gen, up) ==
    LET vals == OldRevData(self)
        fields == {k \in DataKeys : vals[k] # Undef}
        q == ExecInsert(tbl, vals, gen)
    IN  IF ~up
        THEN [thrown |-> "08006", table |-> tbl, gen |-> gen,
              unsafe |-> Unsafe("archive", fields)]
        ELSE IF q.code # "ok"
        THEN [thrown |-> q.code, table |-> tbl, gen |-> gen,
              unsafe |-> Unsafe("archive", fields)]
        ELSE [thrown |-> "none", table |-> q.table, gen |-> q.gen,
              unsafe |-> Unsafe("archive", fields)]

(***************************************************************************)
(* State machine of the revision lifecycle                                 *)
(***************************************************************************)
Bump(f, id) == IF id \in DOMAIN f THEN [f EXCEPT ![id] = @ + 1] ELSE f
NoArgs == [user |-> Null, tags |-> "[]", id |-> Undef]
Idle == "idle"

\* history bookkeeping: handle i gives up a started newRevision without a save
Abandon(i) == IF pending[i] = Idle THEN other ELSE other \cup ({pending[i]} \cap AllIds)
\* history bookkeeping: the id of a copy stored without a marker, because the
\* instance it was taken from had no id yet
Orphan(self, q) ==
    IF q.thrown = "none" /\ InstId(self) = Undef THEN {GenId(q.gen)} ELSE {}

\* `_limit` of a builder on which limit() was not called
NoLimit == -1
\* new QueryBuilder(Team): no join, no includeSensitive, no predicate
NoJoinBuilder ==
    [includeSensitive |-> {}, simple |-> {}, complex |-> [r \in {"creator", "members"} |-> "none"],
     where |-> Undef]

\* no run() has resolved
NoJoinResult == [done |-> FALSE, thrown |-> "none", rows |-> {}]

\* the parts of the program outside the revision lifecycle and filterWhere, at rest
AuxInit ==
    /\ junction = {}
    /\ sa = [p \in Savers |-> NoSaveAll]
    /\ mr = NoMany
    /\ pager = NoPager
    /\ tx = NoTx
    /\ uInst = [data |-> <<>>, instance |-> TRUE, isNew |-> TRUE, changed |-> {}, original |-> <<>>]
    /\ uSql = [kind |-> "none", cols |-> {}, dirty |-> {}]
    /\ modelsByTable = [n \in RegistryNames |-> "none"]
    /\ modelsByKey = [n \in RegistryNames |-> "none"]
    /\ manifestRegistry = [n \in RegistryNames |-> "none"]
    /\ fwViews = [id \in AllIds |-> 0]
    /\ jUsers = {}
    /\ jq = NoJoinBuilder
    /\ jResult = NoJoinResult

\* no filterWhere chain has been started
NoBuilder ==
    [open |-> FALSE, hasRevisions |-> TRUE, where |-> <<>>, includeDeleted |-> FALSE,
     includeStale |-> FALSE, applied |-> FALSE, limit |-> NoLimit, orderBy |-> <<>>,
     groupBy |-> <<>>]
NoResult ==
    [op |-> "none", rows |-> {}, count |-> -1, groups |-> <<>>, thrown |-> "none",
     hasMore |-> FALSE, nextCursor |-> Undef, sent |-> FALSE]

RevInit ==
    /\ table = {}
    /\ nextGen = 0
    /\ clock = 0
    /\ inst = [i \in Instances |-> NewInstance]
    /\ pc = [i \in Instances |-> "none"]
    /\ opArgs = [i \in Instances |-> NoArgs]
    /\ unsafeSql = {}
    /\ cycles = [d \in AllIds |-> 0]
    /\ other = {}
    /\ pending = [i \in Instances |-> Idle]

Init ==
    /\ RevInit
    /\ AuxInit
    /\ fwTable = {}
    /\ fw = NoBuilder
    /\ fwResult = NoResult

\* Model.createFirstRevision(user, {tags: ['create']}) bound to handle i;
\* without a user it throws and binds nothing
CreateFirstRevision(i, user) ==
    /\ pc[i] \in {"none", "idle"}
    /\ clock < MaxClock
    /\ Cardinality(table) < MaxRows
    /\ ResolveRevisionUserId(user) # Null
    /\ inst' = [inst EXCEPT ![i] = ApplyRevisionMetadata(NewInstance, user, "create", clock + 1)]
    /\ pc' = [pc EXCEPT ![i] = "idle"]
    /\ clock' = clock + 1
    /\ other' = Abandon(i)
    /\ pending' = [pending EXCEPT ![i] = Idle]
    /\ UNCHANGED <<table, nextGen, opArgs, unsafeSql, cycles>>
    /\ UNCHANGED <<fwVars, auxVars>>

\* instance.title = t, on a new instance or between newRevision and save
SetTitle(i, t) ==
    /\ pc[i] = "idle"
    /\ inst[i].data["title"] # t
    /\ inst[i].isNew \/ pending[i] # Idle
    /\ inst' = [inst EXCEPT ![i] = SetValue(@, "title", t)]
    /\ UNCHANGED <<table, nextGen, clock, pc, opArgs, unsafeSql, cycles, other, pending>>
    /\ UNCHANGED <<fwVars, auxVars>>

\* instance.id = d on an instance that has not been persisted
SetId(i, d) ==
    /\ pc[i] = "idle"
    /\ inst[i].isNew
    /\ InstId(inst[i]) = Undef
    /\ inst' = [inst EXCEPT ![i] = SetValue(@, "id", d)]
    /\ UNCHANGED <<table, nextGen, clock, pc, opArgs, unsafeSql, cycles, other, pending>>
    /\ UNCHANGED <<fwVars, auxVars>>

\* a read of the document's current row (marker NULL), hydrated into handle i
Load(i, r) ==
    /\ pc[i] \in {"none", "idle"}
    /\ r \in table
    /\ r["_old_rev_of"] = Null
    /\ inst' = [inst EXCEPT ![i] = CreateInstance(r)]
    /\ pc' = [pc EXCEPT ![i] = "idle"]
    /\ other' = Abandon(i)
    /\ pending' = [pending EXCEPT ![i] = Idle]
    /\ UNCHANGED <<table, nextGen, clock, opArgs, unsafeSql, cycles>>
    /\ UNCHANGED <<fwVars, auxVars>>

\* history bookkeeping of a newRevision or deleteAllRevisions call by handle i
\* whose INSERT gave q; opens: the call starts a cycle that a save can complete
CallHistory(i, q, opens) ==
    /\ other' = IF opens THEN other
                ELSE other \cup ({pending[i], InstId(inst[i])} \cap AllIds)
                           \cup Orphan(inst[i], q)
    /\ pending' = [pending EXCEPT ![i] =
                     IF opens THEN InstId(inst[i])
                     ELSE IF pending[i] = Undef \/ InstId(inst[i]) = Undef THEN Undef
                     ELSE Idle]

\* history bookkeeping of a save by handle i that left the instance as `self`
SaveHistory(i, self, ok) ==
    IF ~ok \/ pending[i] = Idle
    THEN UNCHANGED <<cycles, other, pending>>
    ELSE /\ pending' = [pending EXCEPT ![i] = Idle]
         /\ IF pending[i] = InstId(self)
            THEN cycles' = Bump(cycles, InstId(self)) /\ UNCHANGED other
            ELSE other' = other \cup ({pending[i], InstId(self)} \cap AllIds) /\ UNCHANGED cycles

\* instance.save()
SaveCall(i, up) ==
    /\ pc[i] = "idle"
    /\ LET r == Save(inst[i], table, nextGen, up)
       IN  /\ inst' = [inst EXCEPT ![i] = r.self]
           /\ table' = r.table
           /\ nextGen' = r.gen
           /\ unsafeSql' = unsafeSql \cup r.unsafe
           /\ SaveHistory(i, r.self, r.res = "ok")
    /\ UNCHANGED <<clock, pc, opArgs>>
    /\ UNCHANGED <<fwVars, auxVars>>

\* instance.newRevision(user): build and INSERT the archived copy
NewRevisionArchive(i, user, up) ==
    /\ pc[i] = "idle"
    /\ Cardinality(table) < MaxRows
    /\ clock < MaxClock
    /\ LET q == Archive(inst[i], table, nextGen, up)
           ok == q.thrown = "none"
       IN  /\ table' = q.table
           /\ nextGen' = q.gen
           /\ unsafeSql' = unsafeSql \cup q.unsafe
           /\ pc' = [pc EXCEPT ![i] = IF ok THEN "nr_stamp" ELSE "idle"]
           /\ opArgs' = [opArgs EXCEPT ![i] =
                           IF ok THEN [user |-> user, tags |-> "edit", id |-> InstId(inst[i])]
                           ELSE NoArgs]
           /\ CallHistory(i, q, ok /\ pending[i] = Idle /\ InstId(inst[i]) # Undef)
    /\ UNCHANGED <<clock, inst, cycles>>
    /\ UNCHANGED <<fwVars, auxVars>>

\* instance.newRevision(user): after the INSERT, stamp the in-memory instance
\* (throws instead when no user id resolves)
NewRevisionStamp(i) ==
    /\ pc[i] = "nr_stamp"
    /\ pc' = [pc EXCEPT ![i] = "idle"]
    /\ opArgs' = [opArgs EXCEPT ![i] = NoArgs]
    /\ IF ResolveRevisionUserId(opArgs[i].user) = Null
       THEN /\ other' = Abandon(i)
            /\ pending' = [pending EXCEPT ![i] = Idle]
            /\ UNCHANGED <<inst, clock>>
       ELSE /\ inst' = [inst EXCEPT ![i] =
                          ApplyRevisionMetadata(@, opArgs[i].user, opArgs[i].tags, clock + 1)]
            /\ clock' = clock + 1
            /\ UNCHANGED <<other, pending>>
    /\ UNCHANGED <<table, nextGen, unsafeSql, cycles>>
    /\ UNCHANGED <<fwVars, auxVars>>

\* instance.deleteAllRevisions(user): its inner newRevision, up to the INSERT
DeleteAllRevisionsArchive(i, user, up) ==
    /\ pc[i] = "idle"
    /\ Cardinality(table) < MaxRows
    /\ clock < MaxClock
    /\ LET q == Archive(inst[i], table, nextGen, up)
           ok == q.thrown = "none"
       IN  /\ table' = q.table
           /\ nextGen' = q.gen
           /\ unsafeSql' = unsafeSql \cup q.unsafe
           /\ pc' = [pc EXCEPT ![i] = IF ok THEN "dar_save" ELSE "idle"]
           /\ opArgs' = [opArgs EXCEPT ![i] =
                           IF ok THEN [user |-> user, tags |-> "delete", id |-> InstId(inst[i])]
                           ELSE NoArgs]
           /\ CallHistory(i, q, FALSE)
    /\ UNCHANGED <<clock, inst, cycles>>
    /\ UNCHANGED <<fwVars, auxVars>>

\* deleteAllRevisions: the inner newRevision stamps (or throws for want of a
\* user), then `_revDeleted = true` and the awaited save()
DeleteAllRevisionsSave(i, up) ==
    /\ pc[i] = "dar_save"
    /\ IF ResolveRevisionUserId(opArgs[i].user) = Null
       THEN /\ pc' = [pc EXCEPT ![i] = "idle"]
            /\ opArgs' = [opArgs EXCEPT ![i] = NoArgs]
            /\ UNCHANGED <<inst, clock, table, nextGen, unsafeSql, cycles, other, pending>>
       ELSE LET rev == SetValue(ApplyRevisionMetadata(inst[i], opArgs[i].user,
                                                      opArgs[i].tags, clock + 1),
                                "_rev_deleted", "true")
                r == Save(rev, table, nextGen, up)
                ok == r.res = "ok"
            IN  /\ clock' = clock + 1
                /\ inst' = [inst EXCEPT ![i] = IF ok THEN r.self ELSE rev]
                /\ table' = r.table
                /\ nextGen' = r.gen
                /\ unsafeSql' = unsafeSql \cup r.unsafe
                /\ pc' = [pc EXCEPT ![i] = IF ok THEN "dar_bulk" ELSE "idle"]
                /\ opArgs' = [opArgs EXCEPT ![i] = IF ok THEN @ ELSE NoArgs]
                /\ SaveHistory(i, r.self, ok)
    /\ UNCHANGED <<fwVars, auxVars>>

\* deleteAllRevisions: the bulk UPDATE of the archived rows
DeleteAllRevisionsBulk(i, up) ==
    /\ pc[i] = "dar_bulk"
    /\ pc' = [pc EXCEPT ![i] = "idle"]
    /\ opArgs' = [opArgs EXCEPT ![i] = NoArgs]
    /\ table' = IF up THEN ExecMarkDeleted(table, opArgs[i].id) ELSE table
    /\ UNCHANGED <<nextGen, clock, inst, unsafeSql, cycles, other, pending>>
    /\ UNCHANGED <<fwVars, auxVars>>

Next ==
    \/ \E i \in Creators, u \in Users : CreateFirstRevision(i, u)
    \/ \E i \in Instances, t \in Titles : SetTitle(i, t)
    \/ \E i \in Creators, d \in DocIds : SetId(i, d)
    \/ \E i \in Instances, r \in table : Load(i, r)
    \/ \E i \in Instances, up \in BOOLEAN : SaveCall(i, up)
    \/ \E i \in Instances, u \in Users, up \in BOOLEAN : NewRevisionArchive(i, u, up)
    \/ \E i \in Instances : NewRevisionStamp(i)
    \/ \E i \in Instances, u \in Users, up \in BOOLEAN : DeleteAllRevisionsArchive(i, u, up)
    \/ \E i \in Instances, up \in BOOLEAN : DeleteAllRevisionsSave(i, up)
    \/ \E i \in Instances, up \in BOOLEAN : DeleteAllRevisionsBulk(i, up)

Spec == Init /\ [][Next]_vars

\* the same calls against a storage that answers every statement
NextCallers ==
    \/ \E i \in Creators, u \in Users : CreateFirstRevision(i, u)
    \/ \E i \in Instances, t \in Titles : SetTitle(i, t)
    \/ \E i \in Instances, r \in table : Load(i, r)
    \/ \E i \in Instances : SaveCall(i, TRUE)
    \/ \E i \in Instances, u \in Users : NewRevisionArchive(i, u, TRUE)
    \/ \E i \in Instances : NewRevisionStamp(i)
    \/ \E i \in Instances, u \in Users : DeleteAllRevisionsArchive(i, u, TRUE)
    \/ \E i \in Instances : DeleteAllRevisionsSave(i, TRUE)
    \/ \E i \in Instances : DeleteAllRevisionsBulk(i, TRUE)

SpecCallers == Init /\ [][NextCallers]_vars

\* the same, with callers that may leave the user argument out
NextNoUser ==
    \/ NextCallers
    \/ \E i \in Instances : NewRevisionArchive(i, Null, TRUE)
    \/ \E i \in Instances : DeleteAllRevisionsArchive(i, Null, TRUE)

SpecNoUser == Init /\ [][NextNoUser]_vars

(***************************************************************************)
(* Lifecycle with storage keys outside the schema                          *)
(***************************************************************************)
\* instance.setValue(EvilKey, ...): a key that is no schema field lands in
\* `_data` under its own name and is marked dirty
InjectKey(i) ==
    /\ pc[i] = "idle"
    /\ inst[i].data[EvilKey] = Undef
    /\ inst' = [inst EXCEPT ![i] = SetValue(@, EvilKey, "x")]
    /\ UNCHANGED <<table, nextGen, clock, pc, opArgs, unsafeSql, cycles, other, pending>>
    /\ UNCHANGED <<fwVars, auxVars>>

NextInject ==
    \/ \E i \in Creators, u \in Users : CreateFirstRevision(i, u)
    \/ \E i \in Creators, d \in DocIds : SetId(i, d)
    \/ \E i \in Creators : InjectKey(i)
    \/ \E i \in Creators, r \in table : Load(i, r)
    \/ \E i \in Creators, up \in BOOLEAN : SaveCall(i, up)
    \/ \E i \in Creators, u \in Users, up \in BOOLEAN : NewRevisionArchive(i, u, up)
    \/ \E i \in Creators : NewRevisionStamp(i)
    \/ \E i \in Creators, u \in Users, up \in BOOLEAN : DeleteAllRevisionsArchive(i, u, up)
    \/ \E i \in Creators, up \in BOOLEAN : DeleteAllRevisionsSave(i, up)
    \/ \E i \in Creators, up \in BOOLEAN : DeleteAllRevisionsBulk(i, up)

SpecInject == Init /\ [][NextInject]_vars

(***************************************************************************)
(* filterWhere: the FilterWhereBuilder facade over QueryBuilder             *)
(***************************************************************************)
\* bound: predicates a chain's WHERE list may hold before chain steps that add one stop
MaxWhere == 4
\* bound: ORDER BY expressions a chain may hold before chain steps that add one stop
MaxOrderBy == 1
\* LIMIT arguments a caller passes
Limits == {0, 1}
\* chronologicalFeed page sizes a caller passes
FeedLimits == {0, 1, 2}

\* a row of the revision-enabled table as the lifecycle leaves it
FwRow(id, title, n, marker, deleted) ==
    [c \in Columns |->
       CASE c = "id" -> id
         [] c = "title" -> title
         [] c = "_rev_user" -> "U1"
         [] c = "_rev_date" -> DateAt(n)
         [] c = "_rev_id" -> RevId(n)
         [] c = "_old_rev_of" -> marker
         [] c = "_rev_deleted" -> deleted
         [] OTHER -> "[]"]

\* rows the chain's table is drawn from: a live row and its archived copy, a
\* deleted document with its archived copy, a second live row
FwUniverse ==
    {FwRow("d1", "A", 3, Null, "false"),
     FwRow("g1", "A", 1, "d1", "false"),
     FwRow("g2", "B", 2, Null, "true"),
     FwRow("g3", "B", 1, "g2", "true"),
     FwRow("g4", "B", 2, Null, "false")}

\* position of a timestamp in time
DateIndex(v) == CHOOSE n \in 0..(MaxClock + 1) : DateAt(n) = v

\* QueryBuilder._createPredicate: a basic predicate
BasicPredicate(column, operator, value) ==
    [type |-> "basic", column |-> column, operator |-> operator, value |-> value]

\* QueryBuilder._addWhereCondition: `= NULL` becomes `IS NULL`, then push
AddWhereCondition(b, column, operator, value) ==
    LET effectiveOperator ==
            IF value = Null /\ operator = "=" THEN "IS"
            ELSE IF value = Null /\ operator = "!=" THEN "IS NOT"
            ELSE operator
    IN  [b EXCEPT !.where = Append(@, BasicPredicate(column, effectiveOperator, value))]

\* variant: the guards are pushed on every call
EnsureRevisionFilters_EveryTime(b) ==
    LET b1 == [b EXCEPT !.applied = TRUE]
        b2 == IF ~b1.includeStale THEN AddWhereCondition(b1, "_old_rev_of", "IS", Null) ELSE b1
        b3 == IF ~b2.includeDeleted THEN AddWhereCondition(b2, "_rev_deleted", "=", "false") ELSE b2
    IN  IF ~b.hasRevisions THEN b1 ELSE b3

\* FilterWhereBuilder._ensureRevisionFilters
EnsureRevisionFilters(b) ==
    LET b1 == [b EXCEPT !.applied = TRUE]
        b2 == IF ~b1.includeStale THEN AddWhereCondition(b1, "_old_rev_of", "IS", Null) ELSE b1
        b3 == IF ~b2.includeDeleted THEN AddWhereCondition(b2, "_rev_deleted", "=", "false") ELSE b2
    IN  IF b.applied THEN b
        ELSE IF ~b.hasRevisions THEN b1
        ELSE b3

\* what storage makes of a rendered basic predicate on row r
Holds(p, r) ==
    CASE p.operator = "IS" -> r[p.column] = Null
      [] p.operator = "IS NOT" -> r[p.column] # Null
      [] p.operator = "=" -> r[p.column] # Null /\ r[p.column] = p.value
      [] p.operator = "<" -> r[p.column] # Null /\ DateIndex(r[p.column]) < DateIndex(p.value)
      [] p.operator = ">" -> r[p.column] # Null /\ DateIndex(r[p.column]) > DateIndex(p.value)
      [] p.operator = "= ANY" -> r[p.column] \in p.value
      [] OTHER -> FALSE

\* variant: the fragments of the WHERE clause are joined with OR
Matched_JoinedWithOr(b, tbl) ==
    {r \in tbl : Len(b.where) = 0 \/ \E k \in 1..Len(b.where) : Holds(b.where[k], r)}

\* QueryBuilder._buildWhereClause: the fragments joined with AND; the rows of
\* tbl the clause selects
Matched(b, tbl) ==
    {r \in tbl : \A k \in 1..Len(b.where) : Holds(b.where[k], r)}

\* r comes before q under ORDER BY _rev_date dir
Before(r, q, dir) ==
    IF dir = "ASC" THEN DateIndex(r["_rev_date"]) < DateIndex(q["_rev_date"])
    ELSE DateIndex(r["_rev_date"]) > DateIndex(q["_rev_date"])

\* QueryBuilder._buildSelectQuery + run: the row sets a SELECT with the
\* builder's WHERE, ORDER BY and LIMIT can return (ties and unordered results
\* are storage's choice)
Select(b, tbl) ==
    LET all == Matched(b, tbl)
        n == IF b.limit = NoLimit \/ b.limit > Cardinality(all) THEN Cardinality(all) ELSE b.limit
        first == IF Len(b.orderBy) = 0 THEN "RANDOM()" ELSE b.orderBy[1]
    IN  {T \in SUBSET all :
           /\ Cardinality(T) = n
           /\ first # "RANDOM()" =>
                 \A x \in T, y \in all \ T : ~Before(y, x, first)}

\* Model.filterWhere(literal): a fresh builder, then and(literal)
FilterWhere(lit) ==
    /\ LET b == [NoBuilder EXCEPT !.open = TRUE, !.hasRevisions = fw.hasRevisions]
       IN  fw' = IF lit = Undef THEN b ELSE AddWhereCondition(b, "title", "=", lit)
    /\ fwResult' = NoResult
    /\ UNCHANGED <<fwTable, revVars, auxVars>>

\* builder.and({title: lit})
FwAnd(lit) ==
    /\ fw.open
    /\ Len(fw.where) < MaxWhere - 2
    /\ fw' = AddWhereCondition(fw, "title", "=", lit)
    /\ fwResult' = NoResult
    /\ UNCHANGED <<fwTable, revVars, auxVars>>

\* builder.includeDeleted()
FwIncludeDeleted ==
    /\ fw.open
    /\ fw' = [fw EXCEPT !.includeDeleted = TRUE]
    /\ fwResult' = NoResult
    /\ UNCHANGED <<fwTable, revVars, auxVars>>

\* builder.includeStale()
FwIncludeStale ==
    /\ fw.open
    /\ fw' = [fw EXCEPT !.includeStale = TRUE]
    /\ fwResult' = NoResult
    /\ UNCHANGED <<fwTable, revVars, auxVars>>

\* builder.limit(n)
FwLimit(n) ==
    /\ fw.open
    /\ fw' = [fw EXCEPT !.limit = n]
    /\ fwResult' = NoResult
    /\ UNCHANGED <<fwTable, revVars, auxVars>>

\* builder.groupBy('title')
FwGroupBy ==
    /\ fw.open
    /\ fw.groupBy = <<>>
    /\ fw' = [fw EXCEPT !.groupBy = Append(@, "title")]
    /\ fwResult' = NoResult
    /\ UNCHANGED <<fwTable, revVars, auxVars>>

\* builder.run() (also what awaiting the builder does)
FwRun ==
    /\ fw.open
    /\ LET b == EnsureRevisionFilters(fw)
       IN  /\ fw' = b
           /\ \E rows \in Select(b, fwTable) :
                 fwResult' = [NoResult EXCEPT !.op = "run", !.sent = TRUE, !.rows = rows]
    /\ UNCHANGED <<fwTable, revVars, auxVars>>

\* builder.first(): limit(1), run, first row or null
FwFirst ==
    /\ fw.open
    /\ LET b == [EnsureRevisionFilters(fw) EXCEPT !.limit = 1]
       IN  /\ fw' = b
           /\ \E rows \in Select(b, fwTable) :
                 fwResult' = [NoResult EXCEPT !.op = "first", !.sent = TRUE, !.rows = rows]
    /\ UNCHANGED <<fwTable, revVars, auxVars>>

\* builder.count(): SELECT COUNT(*) with the WHERE clause only
FwCount ==
    /\ fw.open
    /\ LET b == EnsureRevisionFilters(fw)
       IN  /\ fw' = b
           /\ fwResult' = [NoResult EXCEPT !.op = "count", !.sent = TRUE, !.rows = Matched(b, fwTable),
                                           !.count = Cardinality(Matched(b, fwTable))]
    /\ UNCHANGED <<fwTable, revVars, auxVars>>

\* builder.sample(n): ORDER BY RANDOM() LIMIT n, run
FwSample(n) ==
    /\ fw.open
    /\ LET b == [EnsureRevisionFilters(fw) EXCEPT !.orderBy = <<"RANDOM()">>, !.limit = n]
       IN  /\ fw' = b
           /\ \E rows \in Select(b, fwTable) :
                 fwResult' = [NoResult EXCEPT !.op = "sample", !.sent = TRUE, !.rows = rows]
    /\ UNCHANGED <<fwTable, revVars, auxVars>>

\* builder.aggregateGrouped('COUNT'): group key -> COUNT(*) over the WHERE
\* clause; without groupBy() it throws
FwAggregateGrouped ==
    /\ fw.open
    /\ LET b == EnsureRevisionFilters(fw)
           rows == Matched(b, fwTable)
           keys == {r[b.groupBy[1]] : r \in rows}
       IN  /\ fw' = b
           /\ fwResult' =
                IF Len(b.groupBy) = 0
                THEN [NoResult EXCEPT !.op = "aggregateGrouped", !.thrown = ConvertPostgreSQLError("none")]
                ELSE [NoResult EXCEPT !.op = "aggregateGrouped", !.sent = TRUE, !.rows = rows,
                        !.groups = [k \in keys |-> Cardinality({r \in rows : r[b.groupBy[1]] = k})]]
    /\ UNCHANGED <<fwTable, revVars, auxVars>>

\* variant: a full page always announces a next one
FeedHasMore_FullPage(fetched, limit) == fetched >= limit

\* chronologicalFeed: hasMore, from the number of rows the LIMIT limit + 1
\* query returned
FeedHasMore(fetched, limit) == fetched > limit

\* chronologicalFeed with a limit above 0 on builder b, whose guards are in
\* place: the cursor predicate, ORDER BY, LIMIT limit + 1, run, and the page
\* cut from the result; the pages storage's choices allow, each with the
\* builder as the call leaves it
ChronologicalFeedPages(b, cursor, dir, limit, tbl) ==
    LET b1 == IF cursor # Undef
              THEN AddWhereCondition(b, "_rev_date", IF dir = "ASC" THEN ">" ELSE "<", cursor)
              ELSE b
        b2 == [b1 EXCEPT !.orderBy = Append(@, dir), !.limit = limit + 1]
        Page(results, rows) ==
            LET hasMore == FeedHasMore(Cardinality(results), limit)
                lastRow == CHOOSE x \in rows : \A y \in rows : ~Before(x, y, b2.orderBy[1])
            IN  [builder |-> b2, rows |-> rows, hasMore |-> hasMore,
                 nextCursor |-> IF hasMore /\ rows # {} THEN lastRow["_rev_date"] ELSE Undef]
    IN  UNION {{Page(results, rows) : rows \in Select([b2 EXCEPT !.limit = limit], results)} :
                 results \in Select(b2, tbl)}

\* builder.chronologicalFeed({cursorField: '_revDate', cursor, direction, limit})
FwChronologicalFeed(cursor, dir, limit) ==
    /\ fw.open
    /\ Len(fw.orderBy) < MaxOrderBy
    /\ cursor # Undef => Len(fw.where) < MaxWhere
    /\ LET b0 == EnsureRevisionFilters(fw)
       IN  IF limit = 0
           THEN /\ fw' = b0
                /\ fwResult' = [NoResult EXCEPT !.op = "chronologicalFeed"]
           ELSE \E page \in ChronologicalFeedPages(b0, cursor, dir, limit, fwTable) :
                   /\ fw' = page.builder
                   /\ fwResult' =
                         [NoResult EXCEPT !.op = "chronologicalFeed", !.sent = TRUE,
                            !.rows = page.rows, !.hasMore = page.hasMore,
                            !.nextCursor = page.nextCursor]
    /\ UNCHANGED <<fwTable, revVars, auxVars>>

InitFW ==
    /\ RevInit
    /\ AuxInit
    /\ fwTable \in {FwUniverse, {r \in FwUniverse : r["id"] # "g4"}}
    /\ fw \in {[NoBuilder EXCEPT !.hasRevisions = h] : h \in BOOLEAN}
    /\ fwResult = NoResult

NextFW ==
    \/ \E lit \in {Undef} \cup Titles : FilterWhere(lit)
    \/ \E lit \in Titles : FwAnd(lit)
    \/ FwIncludeDeleted
    \/ FwIncludeStale
    \/ \E n \in Limits : FwLimit(n)
    \/ FwGroupBy
    \/ FwRun
    \/ FwFirst
    \/ FwCount
    \/ \E n \in Limits : FwSample(n)
    \/ FwAggregateGrouped
    \/ \E cursor \in {Undef, DateAt(2)}, dir \in {"ASC", "DESC"}, limit \in FeedLimits :
          FwChronologicalFeed(cursor, dir, limit)

SpecFW == InitFW /\ [][NextFW]_vars

(***************************************************************************)
(* A caller paging through a chronological feed                            *)
(***************************************************************************)
\* the builder of filterWhere(lit) at its first terminal operation
FeedBase(lit) ==
    LET b == [NoBuilder EXCEPT !.open = TRUE, !.hasRevisions = fw.hasRevisions]
    IN  EnsureRevisionFilters(IF lit = Undef THEN b ELSE AddWhereCondition(b, "title", "=", lit))

\* one round of the loop: filterWhere(lit).chronologicalFeed({cursor, direction,
\* limit}) with the cursor the page before returned; first: a new loop starts
FeedLoopPage(first, lit, dir, limit) ==
    /\ IF first THEN TRUE
       ELSE pager.open /\ ~pager.done /\ lit = pager.lit /\ dir = pager.dir /\ limit = pager.limit
    /\ \E page \in ChronologicalFeedPages(FeedBase(lit), IF first THEN Undef ELSE pager.cursor,
                                           dir, limit, fwTable) :
          /\ fw' = page.builder
          /\ fwResult' = [NoResult EXCEPT !.op = "chronologicalFeed", !.sent = TRUE,
                                          !.rows = page.rows, !.hasMore = page.hasMore,
                                          !.nextCursor = page.nextCursor]
          /\ pager' = [open |-> TRUE, lit |-> lit, dir |-> dir, limit |-> limit,
                       cursor |-> page.nextCursor,
                       seen |-> (IF first THEN {} ELSE pager.seen) \cup page.rows,
                       repeated |-> ~first /\ (pager.repeated \/ pager.seen \cap page.rows # {}),
                       done |-> ~page.hasMore]
    /\ UNCHANGED <<fwTable, revVars, joinVars, fwViews, regVars, userVars, juncVars, mr, tx>>

NextFeedLoop ==
    \E first \in BOOLEAN, lit \in {Undef, "A", "B"}, dir \in {"ASC", "DESC"}, limit \in {1, 2, 3} :
       FeedLoopPage(first, lit, dir, limit)

SpecFeedLoop == InitFW /\ [][NextFeedLoop]_vars

(***************************************************************************)
(* getMultipleNotStaleOrDeleted                                            *)
(***************************************************************************)
\* Model.getMultipleNotStaleOrDeleted(ids): filterWhere({}), then whereIn('id',
\* ids), or limit(0) for an empty id list
GetMultipleNotStaleOrDeleted(ids) ==
    /\ LET b == [NoBuilder EXCEPT !.open = TRUE, !.hasRevisions = fw.hasRevisions]
       IN  fw' = IF ids = {} THEN [b EXCEPT !.limit = 0]
                 ELSE [b EXCEPT !.where = Append(@, BasicPredicate("id", "= ANY", ids))]
    /\ fwResult' = NoResult
    /\ UNCHANGED <<fwTable, revVars, auxVars>>

NextMultiple ==
    \/ \E ids \in {{}, {"d1"}, {"d1", "g2", "g4"}} : GetMultipleNotStaleOrDeleted(ids)
    \/ FwRun
    \/ FwFirst
    \/ FwCount
    \/ \E n \in Limits : FwLimit(n)

SpecMultiple == InitFW /\ [][NextMultiple]_vars

(***************************************************************************)
(* filterWhere: increment / decrement                                      *)
(***************************************************************************)
\* bound: how far from 0 the numeric column may be before increments stop starting
MaxViews == 1

\* QueryBuilder.increment('views', amount): throws when the WHERE clause is
\* empty, else UPDATE t SET views = views + $n WHERE ...; sql: a statement was sent
QueryBuilderIncrement(b, tbl, views, amount) ==
    IF Len(b.where) = 0
    THEN [thrown |-> "Error", sql |-> FALSE, rows |-> {}, views |-> views]
    ELSE [thrown |-> "none", sql |-> TRUE, rows |-> Matched(b, tbl),
          views |-> [id \in DOMAIN views |->
                       IF \E r \in Matched(b, tbl) : r["id"] = id
                       THEN views[id] + amount ELSE views[id]]]

\* builder.increment('views', {by: amount}) and builder.decrement (by: -|amount|)
\* on a FilterWhereBuilder: _ensureRevisionFilters, then QueryBuilder.increment
FwIncrement(amount) ==
    /\ fw.open
    /\ LET b == EnsureRevisionFilters(fw)
           q == QueryBuilderIncrement(b, fwTable, fwViews, amount)
       IN  /\ \A id \in DOMAIN fwViews : q.views[id] \in (0 - MaxViews)..MaxViews
           /\ fw' = b
           /\ fwViews' = q.views
           /\ fwResult' = [NoResult EXCEPT !.op = IF q.sql THEN "increment" ELSE "increment-refused",
                                           !.sent = q.sql,
                                           !.thrown = q.thrown,
                                           !.rows = q.rows,
                                           !.count = IF q.sql THEN Cardinality(q.rows) ELSE -1]
    /\ UNCHANGED <<fwTable, revVars, userVars, juncVars, mr, pager, tx, joinVars, regVars>>

NextFWIncrement ==
    \/ \E lit \in {Undef} \cup Titles : FilterWhere(lit)
    \/ \E lit \in Titles : FwAnd(lit)
    \/ FwIncludeDeleted
    \/ FwIncludeStale
    \/ FwCount
    \/ \E amount \in {1, -1} : FwIncrement(amount)

SpecFWIncrement == InitFW /\ [][NextFWIncrement]_vars

(***************************************************************************)
(* Joined queries: QueryBuilder.getJoin on teams, whose relations `creator` *)
(* (cardinality one) and `members` (cardinality many) both target users.   *)
(***************************************************************************)
\* schema of the main entity: field name, storage column, sensitive mark,
\* and whether values are objects (a multilingual string kept as JSONB)
TeamSchema ==
    {[field |-> "id", col |-> "id", sensitive |-> FALSE, json |-> FALSE],
     [field |-> "name", col |-> "name", sensitive |-> FALSE, json |-> TRUE],
     [field |-> "createdBy", col |-> "created_by", sensitive |-> FALSE, json |-> FALSE],
     [field |-> "apiKey", col |-> "api_key", sensitive |-> TRUE, json |-> FALSE]}

\* schema of the joined entity
UserSchema ==
    {[field |-> "id", col |-> "id", sensitive |-> FALSE, json |-> FALSE],
     [field |-> "displayName", col |-> "display_name", sensitive |-> FALSE, json |-> TRUE],
     [field |-> "teamId", col |-> "team_id", sensitive |-> FALSE, json |-> FALSE],
     [field |-> "password", col |-> "password", sensitive |-> TRUE, json |-> FALSE]}

\* Model.getSensitiveFieldNames, as storage columns
SensitiveColumns(schema) == {f.col : f \in {g \in schema : g.sensitive}}

\* Model.getSafeColumnNames
GetSafeColumnNames(schema) == {f.col : f \in {g \in schema : ~g.sensitive}}

\* Model.getColumnNames(includeSensitive)
GetColumnNames(schema, includeSensitive) ==
    {f.col : f \in {g \in schema : ~g.sensitive \/ g.field \in includeSensitive}}

\* relation metadata as _getJoinInfo returns it
Relations ==
    [creator |-> [cardinality |-> "one", sourceColumn |-> "created_by", targetColumn |-> "id"],
     members |-> [cardinality |-> "many", sourceColumn |-> "id", targetColumn |-> "team_id"]]

RelationNames == DOMAIN Relations

\* rows of teams
JoinTeams ==
    {[id |-> "t1", name |-> "T1", created_by |-> "u1", api_key |-> "k1"],
     [id |-> "t2", name |-> "T2", created_by |-> Null, api_key |-> "k2"]}

\* rows users may hold
JoinUserUniverse ==
    {[id |-> "u1", display_name |-> "U1", team_id |-> "t1", password |-> "p1"],
     [id |-> "u2", display_name |-> "U2", team_id |-> "t1", password |-> "p2"],
     [id |-> "u3", display_name |-> "U3", team_id |-> "t2", password |-> Null]}

\* a row cut down to the columns a statement selects
Project(row, cols) == [c \in cols |-> row[c]]

\* Model._trackOriginalValues: copies of the object values among the schema's columns
TrackOriginalValues(data, schema) ==
    [c \in {f.col : f \in {g \in schema : g.json /\ g.col \in DOMAIN data /\ data[g.col] # Null}}
       |-> data[c]]

\* variant: the row goes through the constructor only, which marks every key
\* it is given as changed and leaves the instance new
Hydrate_ConstructorOnly(data, schema) ==
    [data |-> data, instance |-> TRUE, isNew |-> TRUE, changed |-> DOMAIN data,
     original |-> <<>>]

\* Model._createInstance for a row of the entity with this schema
Hydrate(data, schema) ==
    [data |-> data, instance |-> TRUE, isNew |-> FALSE, changed |-> {},
     original |-> TrackOriginalValues(data, schema)]

\* QueryBuilder._instantiateRelated: the row itself when no constructor is found
InstantiateRelated(found, data, schema) ==
    IF found THEN Hydrate(data, schema)
    ELSE [data |-> data, instance |-> FALSE, isNew |-> FALSE, changed |-> {}, original |-> <<>>]

\* variant: the UPDATE sets every dirty column
UpdateWriteSet_AllChanged(self, schema, updateSensitive) == self.changed

\* variant: the UPDATE sets every column the instance holds when nothing is dirty
UpdateWriteSet_AllWhenClean(self, schema, updateSensitive) ==
    IF self.changed = {} THEN DOMAIN self.data
    ELSE {c \in self.changed :
            \A f \in schema : (f.col = c /\ f.sensitive) => f.field \in updateSensitive}

\* Model._update: the columns the UPDATE of save(options) sets, given the
\* instance's dirty set; empty: no statement is sent
UpdateWriteSet(self, schema, updateSensitive) ==
    {c \in self.changed :
        \A f \in schema : (f.col = c /\ f.sensitive) => f.field \in updateSensitive}

\* _buildSelectQuery + _processResults for one row of teams: for an inline
\* join the safe columns of the related model under prefixed aliases, split
\* off again and hydrated when at least one of them is not NULL
InlineJoined(t, users, rel) ==
    LET info == Relations[rel]
        matches == {u \in users : t[info.sourceColumn] # Null
                                  /\ u[info.targetColumn] = t[info.sourceColumn]}
        joined == {Project(u, GetSafeColumnNames(UserSchema)) : u \in matches}
    IN  {Hydrate(d, UserSchema) : d \in {x \in joined : \E c \in DOMAIN x : x[c] # Null}}

\* _buildComplexJoinQuery + _applyJoinFieldOmissions + _groupRelatedRows +
\* _assignJoinResults for one main row: SELECT target.* of the rows whose
\* target column is among the main rows' source values, grouped by it;
\* found: _getRelatedModel finds a constructor for the target
BatchJoined(b, t, mainRows, users, rel, found) ==
    LET info == Relations[rel]
        sourceValues == {m[info.sourceColumn] : m \in mainRows} \ {Null}
        relatedRows == {u \in users : u[info.targetColumn] \in sourceValues}
        kept == IF b.complex[rel] = "without"
                THEN {f.col : f \in UserSchema} \ {"password"}
                ELSE {f.col : f \in UserSchema}
    IN  {InstantiateRelated(found, Project(u, kept), UserSchema) :
            u \in {v \in relatedRows : v[info.targetColumn] = t[info.sourceColumn]}}

\* QueryBuilder.run with joins: one hydrated instance per selected row of teams
\* (rel: what is attached under each relation name); an inline join whose
\* related model is not registered makes _buildSelectQuery throw
RunJoined(b, users, found) ==
    LET mainRows == {t \in JoinTeams : b.where = Undef \/ t["id"] = b.where}
        mainCols == GetColumnNames(TeamSchema, b.includeSensitive)
        attached(t, rel) ==
            IF b.complex[rel] # "none" THEN BatchJoined(b, t, mainRows, users, rel, found)
            ELSE IF rel \in b.simple THEN InlineJoined(t, users, rel)
            ELSE {}
    IN  IF b.simple # {} /\ ~found
        THEN [done |-> TRUE, thrown |-> ConvertPostgreSQLError("TypeError"), rows |-> {}]
        ELSE [done |-> TRUE, thrown |-> "none",
              rows |-> {[id |-> t["id"],
                         main |-> Hydrate(Project(t, mainCols), TeamSchema),
                         rel |-> [r \in RelationNames |-> attached(t, r)]] : t \in mainRows}]

\* new QueryBuilder(Team, dal)
JoinNew ==
    /\ jq # NoJoinBuilder
    /\ jq' = NoJoinBuilder
    /\ jResult' = NoJoinResult
    /\ UNCHANGED <<jUsers, fwViews, regVars, revVars, userVars, juncVars, mr, pager, tx, fwVars>>

\* builder.getJoin({rel: true}): inline for cardinality one, batch loader for many
JoinTrue(rel) ==
    /\ jq' = IF Relations[rel].cardinality = "many"
             THEN [jq EXCEPT !.complex[rel] = "all"]
             ELSE [jq EXCEPT !.simple = @ \cup {rel}]
    /\ jq' # jq
    /\ jResult' = NoJoinResult
    /\ UNCHANGED <<jUsers, fwViews, regVars, revVars, userVars, juncVars, mr, pager, tx, fwVars>>

\* builder.getJoin({rel: {...}}): an object specification always goes to the
\* batch loader; omit: its _apply calls without('password')
JoinSpec(rel, omit) ==
    /\ jq' = [jq EXCEPT !.complex[rel] = IF omit THEN "without" ELSE "all"]
    /\ jq' # jq
    /\ jResult' = NoJoinResult
    /\ UNCHANGED <<jUsers, fwViews, regVars, revVars, userVars, juncVars, mr, pager, tx, fwVars>>

\* builder.includeSensitive(fields)
JoinIncludeSensitive(fields) ==
    /\ jq.includeSensitive # fields
    /\ jq' = [jq EXCEPT !.includeSensitive = fields]
    /\ jResult' = NoJoinResult
    /\ UNCHANGED <<jUsers, fwViews, regVars, revVars, userVars, juncVars, mr, pager, tx, fwVars>>

\* builder.where('id', id)
JoinWhere(id) ==
    /\ jq.where = Undef
    /\ jq' = [jq EXCEPT !.where = id]
    /\ jResult' = NoJoinResult
    /\ UNCHANGED <<jUsers, fwViews, regVars, revVars, userVars, juncVars, mr, pager, tx, fwVars>>

\* builder.run()
JoinRun ==
    /\ ~jResult.done
    /\ jResult' = RunJoined(jq, jUsers, modelsByTable["users"] # "none")
    /\ UNCHANGED <<jUsers, jq, fwViews, regVars, revVars, userVars, juncVars, mr, pager, tx, fwVars>>

InitJoin ==
    /\ RevInit
    /\ junction = {}
    /\ sa = [p \in Savers |-> NoSaveAll]
    /\ mr = NoMany
    /\ pager = NoPager
    /\ tx = NoTx
    /\ uInst = [data |-> <<>>, instance |-> TRUE, isNew |-> TRUE, changed |-> {}, original |-> <<>>]
    /\ uSql = [kind |-> "none", cols |-> {}, dirty |-> {}]
    /\ \E m \in {"none", "User"} :
          /\ modelsByTable = [n \in RegistryNames |-> IF n = "users" THEN m ELSE "none"]
          /\ modelsByKey = [n \in RegistryNames |-> IF n = "users" THEN m ELSE "none"]
    /\ manifestRegistry = [n \in RegistryNames |-> "none"]
    /\ fwViews = [id \in AllIds |-> 0]
    /\ fwTable = {} /\ fw = NoBuilder /\ fwResult = NoResult
    /\ jUsers \in {JoinUserUniverse, {u \in JoinUserUniverse : u["id"] # "u1"}}
    /\ jq = NoJoinBuilder
    /\ jResult = NoJoinResult

NextJoin ==
    \/ JoinNew
    \/ \E rel \in RelationNames : JoinTrue(rel)
    \/ \E rel \in RelationNames, omit \in BOOLEAN : JoinSpec(rel, omit)
    \/ \E fields \in {{}, {"apiKey"}} : JoinIncludeSensitive(fields)
    \/ \E id \in {"t1", "t2"} : JoinWhere(id)
    \/ JoinRun

SpecJoin == InitJoin /\ [][NextJoin]_vars

(***************************************************************************)
(* save() of a persisted instance of an entity with a sensitive field      *)
(***************************************************************************)
\* Model.get / a builder read of one row of users, hydrated into the handle
UserLoad(u, includeSensitive) ==
    /\ u \in jUsers
    /\ uInst' = Hydrate(Project(u, GetColumnNames(UserSchema, includeSensitive)), UserSchema)
    /\ uInst' # uInst
    /\ uSql' = [kind |-> "none", cols |-> {}, dirty |-> {}]
    /\ UNCHANGED <<jUsers, jq, jResult, fwViews, regVars, revVars, juncVars, mr, pager, tx, fwVars>>

\* instance.<field> = value through the property setter (Model.setValue)
UserSet(col, value) ==
    /\ ~uInst.isNew
    /\ col \notin uInst.changed
    /\ uInst' = [uInst EXCEPT !.data = [c \in DOMAIN @ \cup {col} |-> IF c = col THEN value ELSE @[c]],
                              !.changed = @ \cup {col}]
    /\ uSql' = [kind |-> "none", cols |-> {}, dirty |-> {}]
    /\ UNCHANGED <<jUsers, jq, jResult, fwViews, regVars, revVars, juncVars, mr, pager, tx, fwVars>>

\* a nested property of the object held under display_name is assigned in
\* place: no setter runs, the dirty set is not touched
UserMutateInPlace ==
    /\ ~uInst.isNew
    /\ "display_name" \in DOMAIN uInst.original
    /\ uInst.data["display_name"] = uInst.original["display_name"]
    /\ uInst' = [uInst EXCEPT !.data["display_name"] = "M"]
    /\ uSql' = [kind |-> "none", cols |-> {}, dirty |-> {}]
    /\ UNCHANGED <<jUsers, jq, jResult, fwViews, regVars, revVars, juncVars, mr, pager, tx, fwVars>>

\* Model._detectInPlaceChanges: tracked fields that differ from the snapshot
\* are marked dirty
DetectInPlaceChanges(self) ==
    [self EXCEPT !.changed = @ \cup {c \in DOMAIN self.original : self.data[c] # self.original[c]}]

\* what makes save({updateSensitive}) of a persisted instance reject, "none"
\* when nothing does: _validate (displayName is required), the field-name
\* check of _update, storage (up = FALSE: it cannot be reached), no row
\* returned by the UPDATE
UserSaveRefusal(self, updateSensitive, users, up) ==
    LET cols == UpdateWriteSet(self, UserSchema, updateSensitive)
    IN  IF self.data["display_name"] = Null THEN "ValidationError"
        ELSE IF cols = {} THEN "none"
        ELSE IF \E c \in cols : c \notin {f.col : f \in UserSchema} THEN "Error"
        ELSE IF ~up THEN "08006"
        ELSE IF ~\E u \in users : u["id"] = self.data["id"] THEN "DocumentNotFound"
        ELSE "none"

\* variant: the bookkeeping that ends save() runs whether or not it succeeded
FinishSave_Always(self, data, ok) ==
    [self EXCEPT !.data = data, !.isNew = FALSE, !.changed = {},
                 !.original = TrackOriginalValues(data, UserSchema)]

\* Model.save after _insert / _update: on success the instance is persisted,
\* its dirty set cleared and its snapshot retaken; a throw skips all of it
FinishSave(self, data, ok) ==
    IF ok
    THEN [self EXCEPT !.data = data, !.isNew = FALSE, !.changed = {},
                      !.original = TrackOriginalValues(data, UserSchema)]
    ELSE self

\* instance.save({updateSensitive}) on a persisted instance, resolving:
\* _detectInPlaceChanges, _validate, _update (UPDATE ... WHERE id RETURNING *,
\* Object.assign of the returned row), then the dirty set is cleared and the
\* snapshot retaken
UserSave(updateSensitive) ==
    /\ ~uInst.isNew
    /\ UserSaveRefusal(DetectInPlaceChanges(uInst), updateSensitive, jUsers, TRUE) = "none"
    /\ LET self == DetectInPlaceChanges(uInst)
           cols == UpdateWriteSet(self, UserSchema, updateSensitive)
           row == CHOOSE u \in jUsers : u["id"] = self.data["id"]
           written == [c \in DOMAIN row |-> IF c \in cols THEN self.data[c] ELSE row[c]]
           data == IF cols = {} THEN self.data
                   ELSE [c \in DOMAIN self.data \cup DOMAIN written |-> written[c]]
       IN  /\ jUsers' = IF cols = {} THEN jUsers ELSE (jUsers \ {row}) \cup {written}
           /\ uInst' = FinishSave(self, data, TRUE)
           /\ uSql' = [kind |-> IF cols = {} THEN "skipped" ELSE "update",
                       cols |-> cols, dirty |-> self.changed]
    /\ UNCHANGED <<jq, jResult, fwViews, regVars, revVars, juncVars, mr, pager, tx, fwVars>>

InitUser ==
    /\ RevInit
    /\ junction = {}
    /\ sa = [p \in Savers |-> NoSaveAll]
    /\ mr = NoMany
    /\ pager = NoPager
    /\ tx = NoTx
    /\ fwTable = {} /\ fw = NoBuilder /\ fwResult = NoResult
    /\ fwViews = [id \in AllIds |-> 0]
    /\ modelsByTable = [n \in RegistryNames |-> "none"]
    /\ modelsByKey = [n \in RegistryNames |-> "none"]
    /\ manifestRegistry = [n \in RegistryNames |-> "none"]
    /\ jUsers = JoinUserUniverse
    /\ jq = NoJoinBuilder
    /\ jResult = NoJoinResult
    /\ uInst \in {Hydrate(Project(u, GetSafeColumnNames(UserSchema)), UserSchema) : u \in JoinUserUniverse}
    /\ uSql = [kind |-> "none", cols |-> {}, dirty |-> {}]

NextUser ==
    \/ \E u \in JoinUserUniverse, inc \in {{}, {"password"}} : UserLoad(u, inc)
    \/ \E col \in {"display_name", "password"} : UserSet(col, "X")
    \/ UserMutateInPlace
    \/ \E us \in {{}, {"password"}} : UserSave(us)

SpecUser == InitUser /\ [][NextUser]_vars

\* instance.save({updateSensitive}) on a persisted instance, rejecting
UserSaveRejected(updateSensitive, up) ==
    /\ ~uInst.isNew
    /\ LET self == DetectInPlaceChanges(uInst)
           thrown == UserSaveRefusal(self, updateSensitive, jUsers, up)
       IN  /\ thrown # "none"
           /\ uInst' = FinishSave(self, self.data, FALSE)
           /\ uSql' = [kind |-> thrown, cols |-> {}, dirty |-> self.changed]
    /\ UNCHANGED <<jUsers, jq, jResult, fwViews, regVars, revVars, juncVars, mr, pager, tx, fwVars>>

\* another client deletes the row the instance was read from
UserRowGone ==
    /\ \E u \in jUsers : u["id"] = uInst.data["id"]
    /\ jUsers' = {u \in jUsers : u["id"] # uInst.data["id"]}
    /\ uSql' = [kind |-> "none", cols |-> {}, dirty |-> {}]
    /\ UNCHANGED <<uInst, jq, jResult, fwViews, regVars, revVars, juncVars, mr, pager, tx, fwVars>>

\* the same callers with saves that can reject: a required field set to null,
\* a key outside the schema assigned, storage out of reach, the row deleted
NextUserRejects ==
    \/ NextUser
    \/ UserSet("display_name", Null)
    \/ UserSet("evil", "X")
    \/ UserRowGone
    \/ \E us \in {{}, {"password"}}, up \in BOOLEAN : UserSaveRejected(us, up)

SpecUserRejects == InitUser /\ [][NextUserRejects]_vars

(***************************************************************************)
(* saveAll(): reconciliation of a through relation's junction table        *)
(***************************************************************************)
\* variant: every existing pair is removed
IdsToRemove_AllExisting(existing, desired) == existing

\* _saveManyToManyRelation: idsToRemove
IdsToRemove(existing, desired) == {id \in existing : id \notin desired}

\* the callers other than p whose saveAll() on the same source is between its
\* SELECT and its completion lose `alone` when p's statement changes the table
Disturb(p, src, changes) ==
    [q \in Savers |->
       IF q # p /\ changes /\ sa[q].src = src /\ sa[q].pc \in {"delete", "insert"}
       THEN [sa[q] EXCEPT !.alone = FALSE] ELSE sa[q]]

\* saveAll(joinOptions) up to the SELECT: save() of the main record, then,
\* unless joinOptions names other relations only, the desired ids collected
\* from the relation property
SaveAllStart(p, src, desired, named) ==
    /\ sa[p].pc \in {"idle", "done"}
    /\ sa' = [sa EXCEPT ![p] =
                IF named
                THEN [NoSaveAll EXCEPT !.pc = "select", !.src = src, !.desired = desired]
                ELSE NoSaveAll]
    /\ sa' # sa
    /\ UNCHANGED <<junction, joinVars, fwViews, regVars, userVars, mr, pager, tx, revVars, fwVars>>

\* SELECT target FROM junction WHERE source = $1
SaveAllSelect(p) ==
    /\ sa[p].pc = "select"
    /\ sa' = [sa EXCEPT ![p].pc = "delete",
                        ![p].existing = {e[2] : e \in {x \in junction : x[1] = sa[p].src}}]
    /\ UNCHANGED <<junction, joinVars, fwViews, regVars, userVars, mr, pager, tx, revVars, fwVars>>

\* DELETE FROM junction WHERE source = $1 AND target IN (idsToRemove), sent
\* when idsToRemove is not empty
SaveAllDelete(p) ==
    /\ sa[p].pc = "delete"
    /\ LET idsToRemove == IdsToRemove(sa[p].existing, sa[p].desired)
       IN  /\ junction' = {x \in junction : ~(x[1] = sa[p].src /\ x[2] \in idsToRemove)}
           /\ sa' = [Disturb(p, sa[p].src, junction' # junction)
                        EXCEPT ![p].pc = "insert", ![p].removed = idsToRemove]
    /\ UNCHANGED <<joinVars, fwViews, regVars, userVars, mr, pager, tx, revVars, fwVars>>

\* INSERT INTO junction (source, target) VALUES (idsToAdd) ON CONFLICT DO
\* NOTHING, sent when idsToAdd is not empty; saveAll() then returns
SaveAllInsert(p) ==
    /\ sa[p].pc = "insert"
    /\ LET idsToAdd == {id \in sa[p].desired : id \notin sa[p].existing}
       IN  /\ junction' = junction \cup {<<sa[p].src, id>> : id \in idsToAdd}
           /\ sa' = [Disturb(p, sa[p].src, junction' # junction)
                        EXCEPT ![p].pc = "done", ![p].added = idsToAdd]
    /\ UNCHANGED <<joinVars, fwViews, regVars, userVars, mr, pager, tx, revVars, fwVars>>

NextJunction ==
    \/ \E p \in Savers, src \in {"s1", "s2"}, desired \in SUBSET {"x", "y"}, named \in BOOLEAN :
          SaveAllStart(p, src, desired, named)
    \/ \E p \in Savers : SaveAllSelect(p)
    \/ \E p \in Savers : SaveAllDelete(p)
    \/ \E p \in Savers : SaveAllInsert(p)

SpecJunction == Init /\ [][NextJunction]_vars

(***************************************************************************)
(* Registries: the per-DAL ModelRegistry and the manifest registry         *)
(***************************************************************************)
\* ModelRegistry.register(tableName, model, {key}); key = Undef: no key option.
\* Throws, changing nothing, when the table or the key holds another constructor.
Register(tableName, model, key) ==
    LET canonicalKey == IF key = Undef THEN tableName ELSE key
    IN  /\ modelsByTable[tableName] \in {"none", model}
        /\ modelsByKey[canonicalKey] \in {"none", model}
        /\ modelsByTable' = [modelsByTable EXCEPT ![tableName] = model]
        /\ modelsByKey' = [modelsByKey EXCEPT ![canonicalKey] = model]
        /\ UNCHANGED <<manifestRegistry, joinVars, fwViews, revVars, userVars, juncVars, mr, pager, tx, fwVars>>

\* DataAccessLayer.createModel(name, schema, {registryKey}): throws when
\* registry.get finds the name or the key, else registers a constructor made
\* for the call (model: one that is registered nowhere)
CreateModel(name, model, key) ==
    LET canonicalKey == IF key = Undef THEN name ELSE key
        get(id) == IF modelsByTable[id] # "none" THEN modelsByTable[id] ELSE modelsByKey[id]
    IN  /\ \A n \in RegistryNames : modelsByTable[n] # model /\ modelsByKey[n] # model
        /\ get(name) = "none"
        /\ get(canonicalKey) = "none"
        /\ Register(name, model, canonicalKey)

\* registerManifest(manifest): warns in development when the table name is
\* present, then sets the entry
RegisterManifest(tableName, manifest) ==
    /\ manifestRegistry' = [manifestRegistry EXCEPT ![tableName] = manifest]
    /\ UNCHANGED <<modelsByTable, modelsByKey, joinVars, fwViews, revVars, userVars, juncVars, mr, pager, tx, fwVars>>

\* ModelRegistry.clear()
ClearRegistry ==
    /\ modelsByTable' = [n \in RegistryNames |-> "none"]
    /\ modelsByKey' = [n \in RegistryNames |-> "none"]
    /\ UNCHANGED <<manifestRegistry, joinVars, fwViews, revVars, userVars, juncVars, mr, pager, tx, fwVars>>

NextRegistry ==
    \/ \E t \in {"t1", "t2"}, m \in {"A", "B"}, k \in {Undef} \cup RegistryNames : Register(t, m, k)
    \/ \E t \in {"t1", "t2"}, m \in {"A", "B"}, k \in {Undef} \cup RegistryNames : CreateModel(t, m, k)
    \/ \E t \in {"t1", "t2"}, m \in {"m1", "m2"} : RegisterManifest(t, m)
    \/ ClearRegistry

SpecRegistry == Init /\ [][NextRegistry]_vars

(***************************************************************************)
(* loadManyRelated / addManyRelated of a model with a through relation     *)
(* `teams` and a direct relation `comments`, both targeting table t1       *)
(***************************************************************************)
\* the relations the model's manifest declares, by joinType
ReviewRelations == [teams |-> "through", comments |-> "direct"]

\* rows of the direct relation's target table: <<value of the target column, row id>>
DirectRows == {<<"s1", "c1">>, <<"s1", "c2">>, <<"s2", "c3">>}

\* the non-empty string ids of an id list, once each
UniqueIds(ids) == ids \ {""}

\* variant: an id list is never taken as empty
NothingToDo_Never(ids) == FALSE

\* the early return of both helpers: uniqueIds.length === 0
NothingToDo(ids) == UniqueIds(ids) = {}

\* variant: only the relation's name is looked up
RelatedRefusal_NameOnly(op, rel) ==
    IF rel \notin DOMAIN ReviewRelations THEN "Error: relation not found, available relations" ELSE "none"

\* the error the relation metadata makes a helper throw before any query
RelatedRefusal(op, rel) ==
    IF rel \notin DOMAIN ReviewRelations THEN "Error: relation not found, available relations"
    ELSE IF op = "addManyRelated" /\ ReviewRelations[rel] # "through"
         THEN "Error: not a many-to-many relation with a junction table"
         ELSE "none"

\* Model.loadManyRelated(relationName, sourceIds)
LoadManyRelated(rel, sourceIds) ==
    LET call == [NoMany EXCEPT !.op = "loadManyRelated", !.rel = rel, !.ids = sourceIds]
        refusal == RelatedRefusal("loadManyRelated", rel)
        rows == IF ReviewRelations[rel] = "through" THEN junction ELSE DirectRows
    IN  /\ mr' = IF NothingToDo(sourceIds) THEN call
                 ELSE IF refusal # "none" THEN [call EXCEPT !.thrown = refusal]
                 ELSE IF modelsByTable["t1"] = "none" /\ modelsByKey["t1"] = "none"
                      THEN [call EXCEPT !.thrown = "Error: target model not found"]
                      ELSE [call EXCEPT !.sent = TRUE,
                                        !.map = {x \in rows : x[1] \in UniqueIds(sourceIds)}]
        /\ UNCHANGED <<juncVars, pager, tx, joinVars, fwViews, regVars, userVars, revVars, fwVars>>

\* Model.addManyRelated(relationName, sourceId, targetIds, {onConflict}); the
\* junction table has the pair as its key, so a plain INSERT of a present pair
\* is refused by storage (23505) and inserts nothing
AddManyRelated(rel, sourceId, targetIds, onConflict) ==
    LET call == [NoMany EXCEPT !.op = "addManyRelated", !.rel = rel, !.source = sourceId,
                               !.ids = targetIds]
        refusal == RelatedRefusal("addManyRelated", rel)
        pairs == {<<sourceId, t>> : t \in UniqueIds(targetIds)}
        early == IF sourceId = "" THEN [call EXCEPT !.thrown = "Error: invalid sourceId"]
                 ELSE IF NothingToDo(targetIds) THEN call
                 ELSE [call EXCEPT !.thrown = refusal]
    IN  /\ IF sourceId = "" \/ NothingToDo(targetIds) \/ refusal # "none"
           THEN mr' = early /\ junction' = junction
           ELSE IF onConflict = "error" /\ pairs \cap junction # {}
                THEN mr' = [call EXCEPT !.sent = TRUE, !.thrown = "23505"] /\ junction' = junction
                ELSE mr' = [call EXCEPT !.sent = TRUE] /\ junction' = junction \cup pairs
        /\ UNCHANGED <<sa, pager, tx, joinVars, fwViews, regVars, userVars, revVars, fwVars>>

NextRelated ==
    \/ \E rel \in {"teams", "comments", "nope"}, ids \in SUBSET {"", "s1", "s2"} :
          LoadManyRelated(rel, ids)
    \/ \E rel \in {"teams", "comments", "nope"}, src \in {"", "s1", "s2"},
          ids \in SUBSET {"", "x", "y"}, onConflict \in {"ignore", "error"} :
             AddManyRelated(rel, src, ids, onConflict)
    \/ Register("t1", "A", Undef)
    \/ ClearRegistry

SpecRelated == Init /\ [][NextRelated]_vars

(***************************************************************************)
(* Row classification                                                      *)
(***************************************************************************)
\* current row: marker NULL and not deleted
IsLive(r) == r["_old_rev_of"] = Null /\ r["_rev_deleted"] = "false"
\* archived row: marker set
IsArchived(r) == r["_old_rev_of"] # Null
\* deleted current row: marker NULL, deleted
IsDeletedLive(r) == r["_old_rev_of"] = Null /\ r["_rev_deleted"] = "true"
\* the document a row belongs to
LogicalId(r) == IF r["_old_rev_of"] = Null THEN r["id"] ELSE r["_old_rev_of"]
\* countAllRevisions: WHERE id = $1 OR _old_rev_of = $1
DocRows(d) == {r \in table : r["id"] = d \/ r["_old_rev_of"] = d}

(***************************************************************************)
(* C1: revision count                                                      *)
(***************************************************************************)
\* the document's first revision is stored, and every newRevision call made on
\* it was followed by a successful save (none is open, none failed or was
\* given up, no deleteAllRevisions was called on it)
C1_Settled(d) ==
    /\ \E r \in table : r["id"] = d /\ r["_old_rev_of"] = Null
    /\ d \notin other
    /\ \A i \in Instances : pending[i] # d

\* C1 as stated: after N successful newRevision+save cycles (N >= 1) a document
\* has exactly one live row, exactly N-1 archived rows and N rows in total.
C1_AsStated ==
    \A d \in AllIds :
        (C1_Settled(d) /\ cycles[d] >= 1) =>
            /\ Cardinality({r \in DocRows(d) : IsLive(r)}) = 1
            /\ Cardinality({r \in DocRows(d) : IsArchived(r)}) = cycles[d] - 1
            /\ Cardinality(DocRows(d)) = cycles[d]

\* C1 (amended): once the first revision is stored, after N successful
\* newRevision+save cycles and no other newRevision or deleteAllRevisions call
\* on the document, it has exactly one live row, exactly N archived rows and
\* N+1 rows in total.
C1_RevisionCount ==
    \A d \in AllIds :
        C1_Settled(d) =>
            /\ Cardinality({r \in DocRows(d) : IsLive(r)}) = 1
            /\ Cardinality({r \in DocRows(d) : IsArchived(r)}) = cycles[d]
            /\ Cardinality(DocRows(d)) = cycles[d] + 1

\* two completed cycles on one document
C1_Witness ==
    \E d \in AllIds : C1_Settled(d) /\ cycles[d] = 2 /\ Cardinality(DocRows(d)) = 3

(***************************************************************************)
(* C2: one current revision                                                *)
(***************************************************************************)
\* C2: in every reachable state at most one row per logical id has a NULL
\* marker and deleted = false.
C2_AtMostOneLive ==
    \A d \in AllIds :
        Cardinality({r \in table : LogicalId(r) = d /\ IsLive(r)}) <= 1

\* a document with a live row and an archived row while another handle holds
\* an unsaved new instance claiming the same id
C2_Witness ==
    \E d \in AllIds :
        /\ \E r \in table : r["id"] = d /\ IsLive(r)
        /\ \E r \in table : r["_old_rev_of"] = d
        /\ \E i \in Instances : inst[i].isNew /\ InstId(inst[i]) = d /\ pc[i] = "idle"

(***************************************************************************)
(* C3: deletion covers every revision                                      *)
(***************************************************************************)
\* C3: when deleteAllRevisions completes, every row sharing the logical id has
\* deleted = true and getNotStaleOrDeleted on the id throws the deleted error.
C3_DeleteAllCovers ==
    [][\A i \in Instances :
          (DeleteAllRevisionsBulk(i, TRUE) /\ opArgs[i].id \in AllIds) =>
             /\ \A r \in table' :
                  (r["id"] = opArgs[i].id \/ r["_old_rev_of"] = opArgs[i].id)
                      => r["_rev_deleted"] = "true"
             /\ GetNotStaleOrDeleted(table', opArgs[i].id) = "RevisionDeletedError"]_vars

\* a deleted document with three rows, all handles at rest
C3_Witness ==
    \E d \in AllIds :
        /\ Cardinality(DocRows(d)) = 3
        /\ \A r \in DocRows(d) : r["_rev_deleted"] = "true"
        /\ \E r \in DocRows(d) : r["_rev_tags"] = "delete" /\ r["id"] = d
        /\ \A i \in Instances : pc[i] \in {"none", "idle"}

(***************************************************************************)
(* C4: guarded read of an archived row                                     *)
(***************************************************************************)
\* C4 as stated: a guarded read of an archived row's own id throws the stale
\* error whatever the row's deleted flag.
C4_AsStated ==
    \A r \in table :
        IsArchived(r) => GetNotStaleOrDeleted(table, r["id"]) = "RevisionStaleError"

\* C4 (amended): a guarded read of an archived row's own id never returns data:
\* it throws the deleted error when the row's deleted flag is set and the stale
\* error otherwise.
C4_ArchivedNeverReturned ==
    \A r \in table :
        IsArchived(r) =>
            GetNotStaleOrDeleted(table, r["id"]) =
                IF r["_rev_deleted"] = "true" THEN "RevisionDeletedError"
                ELSE "RevisionStaleError"

\* an archived row flagged deleted next to one that is not
C4_Witness ==
    /\ \E r \in table : IsArchived(r) /\ r["_rev_deleted"] = "true"
    /\ \E r \in table : IsArchived(r) /\ r["_rev_deleted"] = "false"

(***************************************************************************)
(* C5: default reads                                                       *)
(***************************************************************************)
C5_ReadOps == {"run", "first", "count", "sample", "aggregateGrouped", "chronologicalFeed"}

\* C5: on a revision-enabled entity a filterWhere chain on which neither
\* includeDeleted() nor includeStale() was called returns only live rows from
\* every terminal read: run, first, sample and chronologicalFeed return live
\* rows, count and aggregateGrouped count live rows only.
C5_DefaultReadsOnlyLive ==
    (/\ fwResult.op \in C5_ReadOps
     /\ fw.hasRevisions
     /\ ~fw.includeDeleted
     /\ ~fw.includeStale) =>
        /\ \A r \in fwResult.rows : r \in fwTable /\ IsLive(r)
        /\ fwResult.op = "count" =>
              fwResult.count <= Cardinality({r \in fwTable : IsLive(r)})
        /\ fwResult.op = "aggregateGrouped" =>
              \A k \in DOMAIN fwResult.groups :
                 fwResult.groups[k] <= Cardinality({r \in fwTable : IsLive(r) /\ r["title"] = k})

\* a grouped count over a table that also holds archived and deleted rows
C5_Witness ==
    /\ fwResult.op = "aggregateGrouped"
    /\ fw.hasRevisions /\ ~fw.includeDeleted /\ ~fw.includeStale
    /\ fwTable = FwUniverse
    /\ DOMAIN fwResult.groups = {"A", "B"}
    /\ fwResult.groups["B"] = 1

(***************************************************************************)
(* C6: archive before stamp                                                *)
(***************************************************************************)
\* row r is the archived copy of what the instance holds
C6_IsCopyOf(r, self) ==
    /\ r["_old_rev_of"] = (IF InstId(self) = Undef THEN Null ELSE InstId(self))
    /\ \A c \in {"title", "_rev_user", "_rev_date", "_rev_id", "_rev_tags"} :
          r[c] = (IF self.data[c] = Undef THEN ColumnDefault(c) ELSE self.data[c])

\* C6: within newRevision the INSERT of the archived copy leaves the in-memory
\* instance untouched, and the step that changes the revision metadata of an
\* instance that has an id finds the archived copy of the pre-change data
\* already stored.
C6_ArchiveBeforeStamp ==
    [][\A i \in Instances :
          /\ (pc[i] = "idle" /\ pc'[i] \in {"nr_stamp", "dar_save"}) => inst'[i] = inst[i]
          /\ (/\ pc[i] \in {"nr_stamp", "dar_save"}
              /\ inst'[i] # inst[i]
              /\ InstId(inst[i]) # Undef) =>
                \E r \in table : C6_IsCopyOf(r, inst[i])]_vars

\* between the INSERT and the stamp: the copy is stored, the instance still
\* carries the old revision id
C6_Witness ==
    \E i \in Instances :
        /\ pc[i] = "nr_stamp"
        /\ InstId(inst[i]) # Undef
        /\ \E r \in table : C6_IsCopyOf(r, inst[i])
        /\ \E r \in table : r["id"] = InstId(inst[i]) /\ r["_rev_id"] = inst[i].data["_rev_id"]

(***************************************************************************)
(* C7: lazy guards                                                         *)
(***************************************************************************)
\* QueryBuilder._isRevisionFilterPredicate
IsRevisionFilterPredicate(p) ==
    p.type = "basic" /\ p.column \in {"_old_rev_of", "_rev_deleted"}

\* the guard predicates of a builder's WHERE list, in order
C7_Guards(b) == SelectSeq(b.where, IsRevisionFilterPredicate)

\* the guards the flags of b call for
C7_Expected(b) ==
    IF ~b.hasRevisions THEN <<>>
    ELSE (IF b.includeStale THEN <<>> ELSE <<BasicPredicate("_old_rev_of", "IS", Null)>>)
         \o (IF b.includeDeleted THEN <<>> ELSE <<BasicPredicate("_rev_deleted", "=", "false")>>)

\* C7: a chain's WHERE list holds no guard before its first terminal
\* operation; that operation adds each guard the flags then call for exactly
\* once, wherever in the chain includeDeleted() / includeStale() were called;
\* no later step adds or removes a guard.
C7_GuardsOnceAtFirstExecution ==
    [][/\ ~fw'.applied => C7_Guards(fw') = <<>>
       /\ (~fw.applied /\ fw'.applied) => C7_Guards(fw') = C7_Expected(fw)
       /\ (fw.applied /\ fw'.applied) => C7_Guards(fw') = C7_Guards(fw)]_vars

\* includeDeleted() called on a chain that also called limit(), before the
\* first run: the only guard is the stale one, and the run returned a deleted row
C7_Witness ==
    /\ fw.applied /\ fw.hasRevisions
    /\ fw.limit # NoLimit
    /\ fw.includeDeleted /\ ~fw.includeStale
    /\ C7_Guards(fw) = <<BasicPredicate("_old_rev_of", "IS", Null)>>
    /\ fwResult.op = "run"
    /\ \E r \in fwResult.rows : r["_rev_deleted"] = "true"

C9_DeletedLiveTerminal ==
    [][\A r \in table :
          IsDeletedLive(r) =>
             /\ \E n \in table' : n["id"] = r["id"] /\ IsDeletedLive(n)
             /\ ~\E n \in table' : n["id"] = r["id"] /\ IsLive(n)]_vars

\* a handle that loaded the row before the deletion has since written a
\* revision over the deleted row
C9_Witness ==
    \E r \in table :
        /\ IsDeletedLive(r) /\ r["_rev_tags"] = "edit"
        /\ \E x \in table : x["_old_rev_of"] = r["id"] /\ x["_rev_tags"] = "delete"

(***************************************************************************)
(* C10: names embedded in SQL                                              *)
(***************************************************************************)
\* C10: no INSERT or UPDATE built from instance state (save's insert, save's
\* update, newRevision's archived-copy INSERT) is issued with a column name
\* that is not on the allow-list.
C10_OnlyAllowListedNames ==
    unsafeSql = {}

(***************************************************************************)
(* C11: sensitive fields of joined entities                                *)
(***************************************************************************)
\* C11: without includeSensitive, no instance attached under a relation name by
\* a joined query, inline or batched, carries a value for a sensitive field of
\* the joined entity.
C11_NoSensitiveThroughJoin ==
    (jResult.done /\ jq.includeSensitive = {}) =>
        \A m \in jResult.rows : \A r \in RelationNames : \A d \in m.rel[r] :
            \A c \in SensitiveColumns(UserSchema) : c \in DOMAIN d.data => d.data[c] = Null

(***************************************************************************)
(* C12: increment needs a predicate                                        *)
(***************************************************************************)
\* C12: an increment or decrement that sent its UPDATE was called on a builder
\* holding at least one predicate supplied by the caller (one that is not a
\* default revision guard).
C12_IncrementScopedByCaller ==
    fwResult.op = "increment" =>
        \E k \in 1..Len(fw.where) : ~IsRevisionFilterPredicate(fw.where[k])

(***************************************************************************)
(* C13: storage errors reach callers converted                             *)
(***************************************************************************)
\* the error kinds convertPostgreSQLError produces
C13_Taxonomy == {"ConstraintError", "ValidationError", "ConnectionError", "QueryError"}

\* C13: whatever save, newRevision or deleteAllRevisions throws on a storage
\* failure is an error kind produced by convertPostgreSQLError, never the
\* storage collaborator's own error.
C13_OnlyTaxonomyErrors ==
    [][\A i \in Instances, up \in BOOLEAN :
          /\ SaveCall(i, up) =>
                Save(inst[i], table, nextGen, up).res \in C13_Taxonomy \cup {"ok"}
          /\ (\E user \in Users : NewRevisionArchive(i, user, up)) =>
                Archive(inst[i], table, nextGen, up).thrown \in C13_Taxonomy \cup {"none"}
          /\ (\E user \in Users : DeleteAllRevisionsArchive(i, user, up)) =>
                Archive(inst[i], table, nextGen, up).thrown \in C13_Taxonomy \cup {"none"}]_vars

(***************************************************************************)
(* C14: validation failures                                                *)
(***************************************************************************)
\* C14: save() on an instance that fails validation (a required field missing
\* or null) rejects with the ValidationError kind and issues no query.
C14_ValidationErrorKind ==
    \A i \in Instances :
        (pc[i] \in {"none", "idle"} /\ ~Validate(inst[i])) =>
            LET r == Save(inst[i], table, nextGen, TRUE)
            IN  r.res = "ValidationError" /\ r.table = table /\ r.unsafe = {}

(***************************************************************************)
(* C15: duplicate registration                                             *)
(***************************************************************************)
\* C15: no registration replaces what a table name or registry key already
\* holds, in the model registry and in the manifest registry alike.
C15_NoSilentOverwrite ==
    [][\A n \in RegistryNames :
          /\ (modelsByTable[n] # "none" /\ modelsByTable'[n] # "none") =>
                modelsByTable'[n] = modelsByTable[n]
          /\ (modelsByKey[n] # "none" /\ modelsByKey'[n] # "none") =>
                modelsByKey'[n] = modelsByKey[n]
          /\ (manifestRegistry[n] # "none" /\ manifestRegistry'[n] # "none") =>
                manifestRegistry'[n] = manifestRegistry[n]]_vars

(***************************************************************************)
(* C16: revision ids                                                       *)
(***************************************************************************)
\* C16: in every reachable state no two physical rows carry the same _rev_id.
C16_RevIdUniquePerRow ==
    \A r \in table : \A q \in table : r # q => r["_rev_id"] # q["_rev_id"]

(***************************************************************************)
(* C17: hydration                                                          *)
(***************************************************************************)
\* the instance is as a read leaves it: not new, nothing dirty, the snapshot
\* taken from its data, so that save() would send no UPDATE
C17_Clean(x, schema) ==
    /\ ~x.isNew
    /\ x.changed = {}
    /\ x.original = TrackOriginalValues(x.data, schema)
    /\ UpdateWriteSet(x, schema, {}) = {}

\* C17 as stated: every row a joined read returns, main or joined, is a clean
\* hydrated instance.
C17_AsStated ==
    jResult.done =>
        \A m \in jResult.rows :
            /\ C17_Clean(m.main, TeamSchema)
            /\ \A r \in RelationNames : \A a \in m.rel[r] :
                  a.instance /\ C17_Clean(a, UserSchema)

\* C17 (amended): every main row a read returns, and every joined row whose
\* model is registered on the DAL, is a clean hydrated instance; a joined row
\* of the batch loader whose model is not registered is attached as the plain
\* row object.
C17_HydratedWhenModelKnown ==
    jResult.done =>
        \A m \in jResult.rows :
            /\ C17_Clean(m.main, TeamSchema)
            /\ \A r \in RelationNames : \A a \in m.rel[r] :
                  IF modelsByTable["users"] # "none"
                  THEN a.instance /\ C17_Clean(a, UserSchema)
                  ELSE ~a.instance

\* a run that returned a team with its creator joined inline and its members
\* loaded by the batch loader, the users model being registered
C17_Witness ==
    /\ jResult.done
    /\ modelsByTable["users"] # "none"
    /\ \E m \in jResult.rows :
          /\ m.rel["creator"] # {} /\ m.rel["members"] # {}
          /\ "creator" \in jq.simple
          /\ \E a \in m.rel["members"] : "display_name" \in DOMAIN a.original

(***************************************************************************)
(* C18: sensitive fields in UPDATE                                         *)
(***************************************************************************)
\* C18: the UPDATE of save() sets no column of a sensitive field, and leaves
\* the stored value of every sensitive column as it was, unless the field is
\* named in the call's updateSensitive option, even when it is dirty.
C18_SensitiveNotWritten ==
    [][\A us \in {{}, {"password"}} :
          UserSave(us) =>
             \A f \in {g \in UserSchema : g.sensitive /\ g.field \notin us} :
                /\ f.col \notin uSql'.cols
                /\ \A u \in jUsers : \E v \in jUsers' : v["id"] = u["id"] /\ v[f.col] = u[f.col]]_vars

\* a save with a dirty password and no updateSensitive wrote display_name only
C18_Witness ==
    /\ uSql.kind = "update"
    /\ "password" \in uSql.dirty
    /\ uSql.cols = {"display_name"}
    /\ \E u \in jUsers : u["id"] = uInst.data["id"] /\ u["display_name"] = "X" /\ u["password"] # "X"

(***************************************************************************)
(* C19: save with an empty dirty set                                       *)
(***************************************************************************)
\* C19: save() on a persisted instance whose dirty set is empty after
\* in-place change detection sends no statement and leaves the table as it is.
C19_EmptyDirtySetNoQuery ==
    [][\A us \in {{}, {"password"}} :
          (UserSave(us)
           /\ uInst.changed = {}
           /\ \A c \in DOMAIN uInst.original : uInst.data[c] = uInst.original[c]) =>
             (uSql'.kind = "skipped" /\ jUsers' = jUsers)]_vars

\* a save that sent nothing, made right after a save that sent an UPDATE
C19_Witness ==
    /\ uSql.kind = "skipped"
    /\ uSql.dirty = {}
    /\ \E u \in jUsers : u["id"] = uInst.data["id"] /\ u["display_name"] = "X"
    /\ uInst.changed = {}
    /\ uInst.data["display_name"] = "X"

(***************************************************************************)
(* DataAccessLayer.transaction                                             *)
(***************************************************************************)
\* one call of transaction(callback), from the await it stands at (t.pc) to
\* the next one, given whether the awaited promise resolved (ok).  log is the
\* order of the statements sent on the client and of the callback's call,
\* caught the error the catch block received, thrown what the call rejected
\* with ("none": it resolved), released the number of client.release() calls.
\* A call that has settled makes way for the caller's next call.
Transaction(t, ok) ==
    LET catch(error) == [t EXCEPT !.pc = "ROLLBACK", !.caught = error,
                                  !.log = Append(@, "ROLLBACK")]
    IN  CASE t.pc \in {"idle", "settled"} ->
               [pc |-> "BEGIN", log |-> <<"BEGIN">>, caught |-> "none",
                thrown |-> "none", released |-> 0]
          [] t.pc = "BEGIN" ->
               IF ok THEN [t EXCEPT !.pc = "callback", !.log = Append(@, "callback")]
               ELSE catch("BEGIN failed")
          [] t.pc = "callback" ->
               IF ok THEN [t EXCEPT !.pc = "COMMIT", !.log = Append(@, "COMMIT")]
               ELSE catch("callback failed")
          [] t.pc = "COMMIT" ->
               IF ok THEN [t EXCEPT !.pc = "settled", !.released = @ + 1]
               ELSE catch("COMMIT failed")
          [] t.pc = "ROLLBACK" ->
               [t EXCEPT !.pc = "settled", !.released = @ + 1,
                         !.thrown = IF ok THEN t.caught ELSE "ROLLBACK failed"]

\* caller c's transaction call moves on by one await
TxStep(c, ok) ==
    /\ tx' = [tx EXCEPT ![c] = Transaction(tx[c], ok)]
    /\ UNCHANGED <<joinVars, fwViews, regVars, userVars, juncVars, mr, pager, revVars, fwVars>>

\* two callers, each making one call after the other
SpecTx == Init /\ [][\E c \in {"a", "b"}, ok \in BOOLEAN : TxStep(c, ok)]_vars

(***************************************************************************)
(* C20: saveAll reconciles the junction table                              *)
(***************************************************************************)
\* the target ids the junction table holds for a source id
C20_Targets(tbl, src) == {e[2] : e \in {x \in tbl : x[1] = src}}

\* C20 as stated: when saveAll() completes, the junction rows of the source id
\* are exactly the desired ids.
C20_AsStated ==
    [][\A p \in Savers :
          (sa[p].pc = "insert" /\ sa'[p].pc = "done") =>
             C20_Targets(junction', sa[p].src) = sa[p].desired]_vars

\* C20 (amended): when saveAll() completes and no other caller changed the
\* junction rows of the source id between its SELECT and its completion, the
\* junction rows of the source id are exactly the desired ids: the DELETE named
\* exactly the surplus ids, the INSERT exactly the missing ids, and neither
\* named an id both present and desired.
C20_ReconciledWhenAlone ==
    [][\A p \in Savers :
          (sa[p].pc = "insert" /\ sa'[p].pc = "done" /\ sa[p].alone) =>
             /\ C20_Targets(junction', sa[p].src) = sa[p].desired
             /\ sa'[p].removed = sa[p].existing \ sa[p].desired
             /\ sa'[p].added = sa[p].desired \ sa[p].existing
             /\ (sa'[p].removed \cup sa'[p].added) \cap (sa[p].existing \cap sa[p].desired) = {}]_vars

\* a completed call that removed one id, added another and kept nothing else
C20_Witness ==
    \E p \in Savers :
        /\ sa[p].pc = "done" /\ sa[p].alone
        /\ sa[p].removed = {"x"} /\ sa[p].added = {"y"}
        /\ C20_Targets(junction, sa[p].src) = {"y"}

(***************************************************************************)
(* C21: chronologicalFeed pages                                            *)
(***************************************************************************)
\* C21: a chronologicalFeed that sent a query was called with a limit L > 0
\* (the builder holds LIMIT L + 1): it returns L matching rows, or all of them
\* when fewer matched; hasMore is true exactly when more than L rows matched,
\* and then nextCursor is the cursor-field value of a kept row, otherwise
\* there is none. When the feed's ORDER BY key is the builder's only one, the
\* kept rows are the first L of that order and nextCursor is the value of the
\* last of them. A chronologicalFeed that sent no query (limit 0) returns an
\* empty page.
C21_FeedPage ==
    fwResult.op = "chronologicalFeed" =>
       IF fwResult.sent
       THEN LET L == fw.limit - 1
                all == Matched(fw, fwTable)
                dir == fw.orderBy[Len(fw.orderBy)]
                only == Len(fw.orderBy) = 1
            IN  /\ L > 0
                /\ fwResult.rows \subseteq all
                /\ Cardinality(fwResult.rows) = (IF Cardinality(all) > L THEN L ELSE Cardinality(all))
                /\ only => \A x \in fwResult.rows, y \in all \ fwResult.rows : ~Before(y, x, dir)
                /\ fwResult.hasMore <=> Cardinality(all) > L
                /\ fwResult.hasMore =>
                      \E x \in fwResult.rows :
                         /\ fwResult.nextCursor = x["_rev_date"]
                         /\ only => \A y \in fwResult.rows : ~Before(x, y, dir)
                /\ ~fwResult.hasMore => fwResult.nextCursor = Undef
       ELSE fwResult.rows = {} /\ ~fwResult.hasMore /\ fwResult.nextCursor = Undef

\* a page of one row cut from more matching rows, with its cursor
C21_Witness ==
    /\ fwResult.op = "chronologicalFeed" /\ fwResult.sent
    /\ fwResult.hasMore
    /\ Cardinality(fwResult.rows) = 1
    /\ Cardinality(Matched(fw, fwTable)) > 2
    /\ fwResult.nextCursor # Undef

C24_EmptyListNoQuery ==
    [][(/\ mr'.op \in {"loadManyRelated", "addManyRelated"}
        /\ mr'.ids = {}
        /\ mr'.source # "") =>
           /\ ~mr'.sent
           /\ mr'.thrown = "none"
           /\ mr'.map = {}
           /\ junction' = junction]_vars

\* loadManyRelated('teams', []) made while the junction table holds rows
C24_Witness ==
    /\ mr.op = "loadManyRelated" /\ mr.rel = "teams" /\ mr.ids = {}
    /\ ~mr.sent /\ mr.map = {}
    /\ junction # {}

(***************************************************************************)
(* C23: getMultipleNotStaleOrDeleted([])                                   *)
(***************************************************************************)
\* C23: the first terminal operation made on the builder that
\* getMultipleNotStaleOrDeleted([]) returned reports no rows: run returns
\* none, first returns null, count returns 0.
C23_ZeroResultBuilder ==
    [][(/\ fw = [NoBuilder EXCEPT !.open = TRUE, !.hasRevisions = fw.hasRevisions, !.limit = 0]
        /\ fwResult'.op \in {"run", "first", "count"}) =>
           /\ fwResult'.op \in {"run", "first"} => fwResult'.rows = {}
           /\ fwResult'.op = "count" => fwResult'.count = 0]_vars

(***************************************************************************)
(* C25: deletion and a handle loaded before it                             *)
(***************************************************************************)
\* C25: once every call has completed (no handle is inside a call, no
\* newRevision waits for its save), every row sharing the logical id of a
\* document whose current row is deleted has deleted = true, whichever handles
\* completed a newRevision by a save on the document around its deletion.
C25_DeletionSurvivesStaleHandle ==
    \A d \in AllIds :
        (/\ \E r \in table : r["id"] = d /\ IsDeletedLive(r)
         /\ cycles[d] > 0
         /\ \A i \in Instances : pc[i] \in {"none", "idle"} /\ pending[i] = Idle)
           => \A r \in DocRows(d) : r["_rev_deleted"] = "true"

(***************************************************************************)
(* C26: calls rejected for want of a user                                  *)
(***************************************************************************)
\* C26: a newRevision or deleteAllRevisions call made without a user id, which
\* is rejected for it, has not changed the table when it comes to reject.
C26_RejectedCallLeavesTable ==
    [][\A i \in Instances :
          (/\ pc[i] = "idle"
           /\ pc'[i] \in {"nr_stamp", "dar_save"}
           /\ ResolveRevisionUserId(opArgs'[i].user) = Null) => table' = table]_vars

(***************************************************************************)
(* C27: paging through a feed                                              *)
(***************************************************************************)
\* C27: a loop over the pages of a feed that has reached the page with
\* hasMore = false has returned every matching row, and none of them twice.
C27_EveryRowOnce ==
    (pager.open /\ pager.done) =>
        /\ pager.seen = Matched(FeedBase(pager.lit), fwTable)
        /\ ~pager.repeated

(***************************************************************************)
(* C28: what a successful save has written                                 *)
(***************************************************************************)
\* C28: when save() on a persisted instance resolves, every column that was
\* dirty when it was called is among the columns the UPDATE set and the stored
\* row holds the instance's in-memory value for it.
C28_DirtyColumnsWritten ==
    [][\A us \in {{}, {"password"}} :
          UserSave(us) =>
             \A c \in DetectInPlaceChanges(uInst).changed :
                /\ c \in uSql'.cols
                /\ \E u \in jUsers' : u["id"] = uInst.data["id"] /\ u[c] = uInst.data[c]]_vars

C30_TransactionDiscipline ==
    \A c \in {"a", "b"} :
       tx[c].pc = "settled" =>
          LET t == tx[c]
              at(e) == {i \in 1..Len(t.log) : t.log[i] = e}
          IN  /\ t.log[1] = "BEGIN"
              /\ \A i \in at("callback") : i > 1
              /\ \A i \in at("COMMIT") : i = 3 /\ t.log[2] = "callback"
                                            /\ t.caught # "callback failed"
              /\ t.caught # "none" => /\ at("ROLLBACK") # {}
                                      /\ t.thrown = t.caught
              /\ t.caught = "none" => t.thrown = "none"
              /\ t.released = 1

====
